---------------------------- MODULE Spec2Model ----------------------------
(***************************************************************************)
(* A model of the type unifier of compiler/unify/src/unify.rs, of the      *)
(* tail-call pass of compiler/mono/src/tail_recursion.rs and of the        *)
(* lowering of crates/compiler/alias_analysis/src/lib.rs.                   *)
(*                                                                         *)
(* The type store (Subs) is a union-find over variables 1..Len(desc):      *)
(* parent[v] = v for a root, desc[root] is the class descriptor.  Every    *)
(* function of unify.rs that takes `subs: &mut Subs, pool: &mut Pool` is   *)
(* an operator over a threaded machine state s and returns [s, o]: the     *)
(* state it leaves and the Outcome it returns.                             *)
(***************************************************************************)
EXTENDS Integers, Sequences, FiniteSets, TLC

VARIABLES subs, before, call, outcome, unified, pool, log, ranges, pass, lowering, parser

vars == <<subs, before, call, outcome, unified, pool, log, ranges, pass, lowering, parser>>

\* the unifier, as the other two programs leave it
unifier == <<subs, before, call, outcome, unified, pool, log, ranges>>

\* a program that is not part of the run
Idle == [phase |-> "idle"]

(***************************************************************************)
(* Bounds of the model.                                                    *)
(***************************************************************************)
\* unify may allocate fresh variables; a call is only taken from stores of
\* at most MaxVars variables.
MaxVars == 24
\* Depth of nested unify_pool calls after which the native stack is taken
\* to overflow (cyclic types recurse without end).
MaxDepth == 12
\* Number of unify calls in one run of the solver.
MaxCalls == 1

(***************************************************************************)
(* Mode (bitflags, unify.rs:88-107) as a set of flag names.                *)
(***************************************************************************)
EQ == {"EQ"}

PRESENT == {"PRESENT"}

RIGID_AS_FLEX == {"RIGID_AS_FLEX"}

is_eq(mode) == "EQ" \in mode

\* a mode test that never sees the presence flag
is_present_never(mode) == FALSE

is_present(mode) == "PRESENT" \in mode

as_eq(mode) == (mode \ PRESENT) \cup EQ

(***************************************************************************)
(* Content and FlatType.  A name of "" is None.  Record-field labels and   *)
(* tag names are numbers: the position of the label in the order the       *)
(* store sorts them by.                                                    *)
(***************************************************************************)
FlexVar(name) == [tag |-> "FlexVar", name |-> name]

FlexAbleVar(name, ability) == [tag |-> "FlexAbleVar", name |-> name, ability |-> ability]

RigidVar(name) == [tag |-> "RigidVar", name |-> name]

RigidAbleVar(name, ability) == [tag |-> "RigidAbleVar", name |-> name, ability |-> ability]

RecursionVar(name, structure) == [tag |-> "RecursionVar", name |-> name, structure |-> structure]

Structure(flat_type) == [tag |-> "Structure", flat |-> flat_type]

Alias(symbol, args, real_var, kind) ==
    [tag |-> "Alias", symbol |-> symbol, args |-> args, real_var |-> real_var, kind |-> kind]

RangedNumber(real_var, range_vars) ==
    [tag |-> "RangedNumber", real_var |-> real_var, range_vars |-> range_vars]

Error == [tag |-> "Error"]

EmptyRecord == [ft |-> "EmptyRecord"]

Record(fields, ext) == [ft |-> "Record", fields |-> fields, ext |-> ext]

EmptyTagUnion == [ft |-> "EmptyTagUnion"]

TagUnion(tags, ext) == [ft |-> "TagUnion", tags |-> tags, ext |-> ext]

RecursiveTagUnion(rec, tags, ext) ==
    [ft |-> "RecursiveTagUnion", rec |-> rec, tags |-> tags, ext |-> ext]

FunctionOrTagUnion(tag_name, symbol, ext) ==
    [ft |-> "FunctionOrTagUnion", tag_name |-> tag_name, symbol |-> symbol, ext |-> ext]

Apply(symbol, args) == [ft |-> "Apply", symbol |-> symbol, args |-> args]

Func(args, closure, ret) == [ft |-> "Func", args |-> args, closure |-> closure, ret |-> ret]

\* RecordField<Variable>: kind is "Required", "Optional" or "Demanded".
Field(label, kind, var) == [label |-> label, kind |-> kind, var |-> var]

\* One tag of a UnionTags: its name and the slice of its payload variables.
Tag(label, tvars) == [label |-> label, vars |-> tvars]

\* Mark::NONE, and the rank of a descriptor (unify.rs:1845-1850).
MarkNONE == "NONE"

Descriptor(content, rank) == [content |-> content, rank |-> rank, mark |-> MarkNONE]

Min(a, b) == IF a <= b THEN a ELSE b

(***************************************************************************)
(* Outcome (unify.rs:192-206) and Mismatch.                                *)
(***************************************************************************)
Outcome(mismatches, must_implement_ability) ==
    [mismatches |-> mismatches, must_implement_ability |-> must_implement_ability]

OutcomeDefault == Outcome(<<>>, <<>>)

TypeMismatch == [kind |-> "TypeMismatch"]

TypeNotInRange == [kind |-> "TypeNotInRange"]

DoesNotImplementAbiity(var, ability) ==
    [kind |-> "DoesNotImplementAbiity", var |-> var, ability |-> ability]

MustImplementAbility(typ, ability) == [typ |-> typ, ability |-> ability]

\* Outcome::union
OutcomeUnion(o, other) ==
    Outcome(o.mismatches \o other.mismatches,
            o.must_implement_ability \o other.must_implement_ability)

\* the mismatch!() macro and its %not_able form (unify.rs:13-84)
mismatch == Outcome(<<TypeMismatch>>, <<>>)

mismatch_not_able(var, ability) ==
    Outcome(<<TypeMismatch, DoesNotImplementAbiity(var, ability)>>, <<>>)

\* what a function over (subs, pool) leaves and returns
R(s, o) == [s |-> s, o |-> o]

Ok(r) == r.o.mismatches = <<>>

(***************************************************************************)
(* Subs: the union-find store with snapshots.                              *)
(***************************************************************************)
RECURSIVE Root(_, _)
Root(s, v) == IF s.parent[v] = v THEN v ELSE Root(s, s.parent[v])

\* subs.get / get_content_without_compacting
Get(s, v) == s.desc[Root(s, v)]

Content(s, v) == Get(s, v).content

\* subs.equivalent
Equivalent(s, a, b) == Root(s, a) = Root(s, b)

\* subs.set: overwrite the root descriptor, no merge
Set(s, v, d) == [s EXCEPT !.desc[Root(s, v)] = d]

\* subs.union(left, right, desc): one class, whose descriptor is desc
Union(s, left, right, d) ==
    LET l == Root(s, left)
        r == Root(s, right)
    IN  [s EXCEPT !.parent[l] = r, !.desc[r] = d,
                  !.log = Append(@, [ev |-> "union", a |-> left, b |-> right])]

\* subs.fresh(descriptor): a new class; the new variable is Len(s.desc)
Fresh(s, d) ==
    [s EXCEPT !.parent = Append(@, Len(@) + 1), !.desc = Append(@, d)]

NewVar(s) == Len(s.desc)

\* subs.snapshot(): the snapshot is the table at this point; snapshots nest,
\* and the one just taken is number Len(open).  The log keeps, with every
\* snapshot, rollback and commit, the number of unify_pool calls on the stack.
Snapshot(s) ==
    [s EXCEPT !.open = Append(@, [parent |-> s.parent, desc |-> s.desc]),
              !.log = Append(@, [ev |-> "snapshot", a |-> Len(s.open) + 1, b |-> 0,
                                 d |-> s.depth])]

LastSnapshot(s) == Len(s.open)

\* subs.rollback_to(snapshot): every edit and every variable since is undone,
\* and the snapshots taken after it are gone with it
RollbackTo(s, snapshot) ==
    [s EXCEPT !.parent = s.open[snapshot].parent, !.desc = s.open[snapshot].desc,
              !.open = SubSeq(@, 1, snapshot - 1),
              !.log = Append(@, [ev |-> "rollback", a |-> snapshot, b |-> Len(s.open),
                                 d |-> s.depth])]

\* subs.commit_snapshot(snapshot): the edits stay
CommitSnapshot(s, snapshot) ==
    [s EXCEPT !.open = SubSeq(@, 1, snapshot - 1),
              !.log = Append(@, [ev |-> "commit", a |-> snapshot, b |-> Len(s.open),
                                 d |-> s.depth])]

\* subs.vars_since_snapshot(&snapshot): the variables created since
VarsSinceSnapshot(s, snapshot) == Len(s.open[snapshot].desc) + 1 .. Len(s.desc)

\* the table alone, as a caller of unify sees it
Table(s) == [parent |-> s.parent, desc |-> s.desc]

(***************************************************************************)
(* Rows: sorted field and tag lists, and the walk down the ext chain.      *)
(***************************************************************************)
RECURSIVE InsertSorted(_, _)
InsertSorted(sorted, x) ==
    IF sorted = <<>> THEN <<x>>
    ELSE IF x.label < Head(sorted).label THEN <<x>> \o sorted
    ELSE <<Head(sorted)>> \o InsertSorted(Tail(sorted), x)

RECURSIVE SortByLabel(_)
SortByLabel(row) ==
    IF row = <<>> THEN <<>>
    ELSE InsertSorted(SortByLabel(SubSeq(row, 1, Len(row) - 1)), row[Len(row)])

\* RecordFields::has_only_optional_fields
has_only_optional_fields(fields) == \A i \in 1..Len(fields) : fields[i].kind = "Optional"

\* is_empty_record: the chain from var holds no field and ends in EmptyRecord.
\* seen guards the walk: a chain that comes back to itself never ends.
RECURSIVE is_empty_record(_, _, _)
is_empty_record(s, var, seen) ==
    LET c == Content(s, var) IN
    IF Root(s, var) \in seen THEN "loops"
    ELSE IF c.tag = "Structure" /\ c.flat.ft = "EmptyRecord" THEN "yes"
    ELSE IF c.tag = "Structure" /\ c.flat.ft = "Record" THEN
        IF c.flat.fields # <<>> THEN "no"
        ELSE is_empty_record(s, c.flat.ext, seen \cup {Root(s, var)})
    ELSE IF c.tag = "Alias" THEN is_empty_record(s, c.real_var, seen \cup {Root(s, var)})
    ELSE "no"

\* gather_fields: the fields of every Record down the ext chain and the
\* variable the chain ends in
RECURSIVE gather_fields(_, _, _, _)
gather_fields(s, fields, var, seen) ==
    LET c == Content(s, var) IN
    IF Root(s, var) \in seen THEN [fields |-> fields, ext |-> var, loops |-> TRUE]
    ELSE IF c.tag = "Structure" /\ c.flat.ft = "Record" THEN
        gather_fields(s, fields \o c.flat.fields, c.flat.ext, seen \cup {Root(s, var)})
    ELSE IF c.tag = "Alias" THEN
        gather_fields(s, fields, c.real_var, seen \cup {Root(s, var)})
    ELSE [fields |-> fields, ext |-> var, loops |-> FALSE]

\* RecordFields::sorted_iterator_and_ext
sorted_iterator_and_ext(s, fields, ext) ==
    LET e == is_empty_record(s, ext, {})
        g == gather_fields(s, fields, ext, {})
    IN  IF e = "loops" THEN [fields |-> fields, ext |-> ext, loops |-> TRUE]
        ELSE IF e = "yes" THEN [fields |-> fields, ext |-> ext, loops |-> FALSE]
        ELSE [fields |-> SortByLabel(g.fields), ext |-> g.ext, loops |-> g.loops]

\* is_empty_tag_union
RECURSIVE is_empty_tag_union(_, _, _)
is_empty_tag_union(s, var, seen) ==
    LET c == Content(s, var) IN
    IF Root(s, var) \in seen THEN "loops"
    ELSE IF c.tag = "Structure" /\ c.flat.ft = "EmptyTagUnion" THEN "yes"
    ELSE IF c.tag = "Structure" /\ c.flat.ft = "TagUnion" THEN
        IF c.flat.tags # <<>> THEN "no"
        ELSE is_empty_tag_union(s, c.flat.ext, seen \cup {Root(s, var)})
    ELSE IF c.tag = "Alias" THEN is_empty_tag_union(s, c.real_var, seen \cup {Root(s, var)})
    ELSE "no"

\* gather_tags_slices
RECURSIVE gather_tags(_, _, _, _)
gather_tags(s, tags, var, seen) ==
    LET c == Content(s, var) IN
    IF Root(s, var) \in seen THEN [tags |-> tags, ext |-> var, loops |-> TRUE]
    ELSE IF c.tag = "Structure" /\ c.flat.ft \in {"TagUnion", "RecursiveTagUnion"} THEN
        gather_tags(s, tags \o c.flat.tags, c.flat.ext, seen \cup {Root(s, var)})
    ELSE IF c.tag = "Structure" /\ c.flat.ft = "FunctionOrTagUnion" THEN
        gather_tags(s, tags \o <<Tag(c.flat.tag_name, <<>>)>>, c.flat.ext,
                    seen \cup {Root(s, var)})
    ELSE IF c.tag = "Alias" THEN
        gather_tags(s, tags, c.real_var, seen \cup {Root(s, var)})
    ELSE [tags |-> tags, ext |-> var, loops |-> FALSE]

\* UnionTags::sorted_slices_iterator_and_ext
sorted_slices_iterator_and_ext(s, tags, ext) ==
    LET e == is_empty_tag_union(s, ext, {})
        g == gather_tags(s, tags, ext, {})
    IN  IF e = "loops" THEN [tags |-> tags, ext |-> ext, loops |-> TRUE]
        ELSE IF e = "yes" THEN [tags |-> tags, ext |-> ext, loops |-> FALSE]
        ELSE [tags |-> SortByLabel(g.tags), ext |-> g.ext, loops |-> g.loops]

\* merge_sorted (unify.rs:955-996): on equal keys the left entry is kept
RECURSIVE merge_sorted(_, _)
merge_sorted(input1, input2) ==
    IF input1 = <<>> THEN input2
    ELSE IF input2 = <<>> THEN input1
    ELSE IF Head(input1).label < Head(input2).label
        THEN <<Head(input1)>> \o merge_sorted(Tail(input1), input2)
    ELSE IF Head(input1).label = Head(input2).label
        THEN <<Head(input1)>> \o merge_sorted(Tail(input1), Tail(input2))
    ELSE <<Head(input2)>> \o merge_sorted(input1, Tail(input2))

\* separate (unify.rs:998-1045): one pass over two sorted rows
RECURSIVE separate(_, _)
separate(input1, input2) ==
    IF input1 = <<>> /\ input2 = <<>> THEN
        [only_in_1 |-> <<>>, only_in_2 |-> <<>>, in_both |-> <<>>]
    ELSE IF input2 = <<>> \/ (input1 # <<>> /\ Head(input1).label < Head(input2).label) THEN
        LET rest == separate(Tail(input1), input2)
        IN  [rest EXCEPT !.only_in_1 = <<Head(input1)>> \o @]
    ELSE IF input1 = <<>> \/ Head(input1).label > Head(input2).label THEN
        LET rest == separate(input1, Tail(input2))
        IN  [rest EXCEPT !.only_in_2 = <<Head(input2)>> \o @]
    ELSE
        LET rest == separate(Tail(input1), Tail(input2))
        IN  [rest EXCEPT !.in_both =
                <<[label |-> Head(input1).label, l |-> Head(input1), r |-> Head(input2)]>> \o @]

(***************************************************************************)
(* Context, merge, register and fresh (unify.rs:125-132, 1843-1876).       *)
(***************************************************************************)
Context(first, first_desc, second, second_desc, mode) ==
    [first |-> first, first_desc |-> first_desc,
     second |-> second, second_desc |-> second_desc, mode |-> mode]

merge(s, ctx, content) ==
    LET rank == Min(ctx.first_desc.rank, ctx.second_desc.rank)
        desc == [content |-> content, rank |-> rank, mark |-> MarkNONE]
    IN  R(Union(s, ctx.first, ctx.second, desc), OutcomeDefault)

\* register: the state after; the new variable is NewVar of it
register(s, desc) == [Fresh(s, desc) EXCEPT !.pool = Append(@, Len(s.desc) + 1)]

fresh(s, ctx, content) ==
    register(s, [content |-> content,
                 rank |-> Min(ctx.first_desc.rank, ctx.second_desc.rank),
                 mark |-> MarkNONE])

\* subs.fresh_unnamed_flex_var(): a flex variable outside the pool
fresh_unnamed_flex_var(s) == Fresh(s, Descriptor(FlexVar(""), 0))

is_recursion_var(s, var) == Content(s, var).tag = "RecursionVar"

(***************************************************************************)
(* The unifier.  unify_pool is the one entry every function recurses       *)
(* through.                                                                *)
(***************************************************************************)
RECURSIVE unify_pool(_, _, _, _)

\* unify_flex (unify.rs:1710-1769); opt_able_bound "" is None
unify_flex(s, ctx, opt_name, opt_able_bound, other) ==
    IF other.tag = "FlexVar" /\ other.name = "" THEN
        IF opt_able_bound # "" THEN merge(s, ctx, FlexAbleVar(opt_name, opt_able_bound))
        ELSE merge(s, ctx, FlexVar(opt_name))
    ELSE IF other.tag = "FlexAbleVar" THEN
        LET name == IF other.name # "" THEN other.name ELSE opt_name IN
        IF opt_able_bound # "" THEN
            IF opt_able_bound = other.ability
            THEN merge(s, ctx, FlexAbleVar(name, opt_able_bound))
            ELSE R(s, mismatch_not_able(ctx.second, opt_able_bound))
        ELSE merge(s, ctx, FlexAbleVar(name, other.ability))
    ELSE IF other.tag = "Error" THEN merge(s, ctx, Error)
    ELSE merge(s, ctx, other)

\* unify_rigid that treats every rigid as flex, whatever the mode
unify_rigid_always_as_flex(s, ctx, name, opt_able_bound, other) ==
    IF other.tag = "FlexVar" THEN merge(s, ctx, RigidVar(name))
    ELSE IF other.tag = "FlexAbleVar" THEN
        IF opt_able_bound # "" THEN
            IF opt_able_bound = other.ability
            THEN merge(s, ctx, RigidAbleVar(name, opt_able_bound))
            ELSE R(s, mismatch_not_able(ctx.second, opt_able_bound))
        ELSE R(s, mismatch_not_able(ctx.first, other.ability))
    ELSE IF other.tag \in {"RigidVar", "RecursionVar", "Structure", "Alias", "RangedNumber"}
        THEN
        IF opt_able_bound = "" THEN merge(s, ctx, other)
        ELSE IF other.tag = "Alias" /\ other.kind = "Opaque" /\ other.args = <<>> THEN
            LET output == merge(s, ctx, other)
            IN  R(output.s, Outcome(output.o.mismatches,
                    Append(output.o.must_implement_ability,
                           MustImplementAbility(other.symbol, opt_able_bound))))
        ELSE R(s, mismatch_not_able(ctx.second, opt_able_bound))
    ELSE IF other.tag = "Error" THEN merge(s, ctx, Error)
    ELSE R(s, mismatch)

\* unify_rigid (unify.rs:1620-1707)
unify_rigid(s, ctx, name, opt_able_bound, other) ==
    IF other.tag = "FlexVar" THEN merge(s, ctx, RigidVar(name))
    ELSE IF other.tag = "FlexAbleVar" THEN
        IF opt_able_bound # "" THEN
            IF opt_able_bound = other.ability
            THEN merge(s, ctx, RigidAbleVar(name, opt_able_bound))
            ELSE R(s, mismatch_not_able(ctx.second, opt_able_bound))
        ELSE R(s, mismatch_not_able(ctx.first, other.ability))
    ELSE IF other.tag \in {"RigidVar", "RecursionVar", "Structure", "Alias", "RangedNumber"}
            /\ "RIGID_AS_FLEX" \in ctx.mode THEN
        IF opt_able_bound = "" THEN merge(s, ctx, other)
        ELSE IF other.tag = "Alias" /\ other.kind = "Opaque" /\ other.args = <<>> THEN
            LET output == merge(s, ctx, other)
            IN  R(output.s, Outcome(output.o.mismatches,
                    Append(output.o.must_implement_ability,
                           MustImplementAbility(other.symbol, opt_able_bound))))
        ELSE R(s, mismatch_not_able(ctx.second, opt_able_bound))
    ELSE IF other.tag = "Error" THEN merge(s, ctx, Error)
    ELSE R(s, mismatch)

\* unify_recursion (unify.rs:1772-1841)
unify_recursion(s, ctx, opt_name, structure, other) ==
    IF other.tag = "RecursionVar" THEN
        merge(s, ctx, RecursionVar(IF opt_name # "" THEN opt_name ELSE other.name, structure))
    ELSE IF other.tag = "Structure" THEN unify_pool(s, structure, ctx.second, ctx.mode)
    ELSE IF other.tag \in {"RigidVar", "FlexAbleVar", "RigidAbleVar"} THEN R(s, mismatch)
    ELSE IF other.tag = "FlexVar" THEN merge(s, ctx, RecursionVar(opt_name, structure))
    ELSE IF other.tag = "Alias" THEN
        IF other.kind = "Opaque" THEN R(s, mismatch)
        ELSE unify_pool(s, ctx.first, other.real_var, ctx.mode)
    ELSE IF other.tag = "RangedNumber" THEN R(s, mismatch)
    ELSE merge(s, ctx, Error)

RECURSIVE check_valid_range_from(_, _, _, _, _)

\* the loop of check_valid_range that keeps the edits of the candidate that
\* matched
check_valid_range_keeps_match(s, var, slice, i, mode) ==
    IF i > Len(slice) THEN R(s, Outcome(<<TypeNotInRange>>, <<>>))
    ELSE
        LET s1 == Snapshot(s)
            snapshot == LastSnapshot(s1)
            old_pool == s.pool
            r == unify_pool(s1, var, slice[i], mode \cup RIGID_AS_FLEX)
        IN  IF Ok(r) THEN
                R(CommitSnapshot(r.s, snapshot), OutcomeDefault)
            ELSE IF i < Len(slice) THEN
                check_valid_range_from([RollbackTo(r.s, snapshot) EXCEPT !.pool = old_pool],
                                       var, slice, i + 1, mode)
            ELSE check_valid_range_from(CommitSnapshot(r.s, snapshot), var, slice, i + 1, mode)

\* check_valid_range that returns on a match with its snapshot still open
check_valid_range_leaves_open(s, var, slice, i, mode) ==
    IF i > Len(slice) THEN R(s, Outcome(<<TypeNotInRange>>, <<>>))
    ELSE
        LET s1 == Snapshot(s)
            snapshot == LastSnapshot(s1)
            old_pool == s.pool
            r == unify_pool(s1, var, slice[i], mode \cup RIGID_AS_FLEX)
        IN  IF Ok(r) THEN R(r.s, OutcomeDefault)
            ELSE IF i < Len(slice) THEN
                check_valid_range_from([RollbackTo(r.s, snapshot) EXCEPT !.pool = old_pool],
                                       var, slice, i + 1, mode)
            ELSE check_valid_range_from(CommitSnapshot(r.s, snapshot), var, slice, i + 1, mode)

\* the loop of check_valid_range (unify.rs:426-448), from candidate i on
check_valid_range_from(s, var, slice, i, mode) ==
    IF i > Len(slice) THEN R(s, Outcome(<<TypeNotInRange>>, <<>>))
    ELSE
        LET s1 == Snapshot(s)
            snapshot == LastSnapshot(s1)
            old_pool == s.pool
            r == unify_pool(s1, var, slice[i], mode \cup RIGID_AS_FLEX)
        IN  IF Ok(r) THEN
                R([RollbackTo(r.s, snapshot) EXCEPT !.pool = old_pool], OutcomeDefault)
            ELSE IF i < Len(slice) THEN
                check_valid_range_from([RollbackTo(r.s, snapshot) EXCEPT !.pool = old_pool],
                                       var, slice, i + 1, mode)
            ELSE check_valid_range_from(CommitSnapshot(r.s, snapshot), var, slice, i + 1, mode)

\* check_valid_range (unify.rs:417-449).  Each call is recorded with the
\* table and pool it found and left.
check_valid_range(s, var, range, mode) ==
    LET r == check_valid_range_from(s, var, range, 1, mode)
    IN  R([r.s EXCEPT !.ranges = Append(@,
              [var |-> var, range |-> range, mode |-> mode,
               pre |-> Table(s), pre_pool |-> s.pool,
               post |-> Table(r.s), post_pool |-> r.s.pool, o |-> r.o])],
          r.o)

\* unify_ranged_number whose Error arm lets the ranged number win, as the
\* FlexVar arm does
unify_ranged_number_over_error(s, ctx, real_var, range_vars) ==
    LET other_content == ctx.second_desc.content
        r == IF other_content.tag \in {"FlexVar", "Error"} THEN
                 merge(s, ctx, RangedNumber(real_var, range_vars))
             ELSE IF other_content.tag = "RangedNumber" THEN
                 LET r1 == unify_pool(s, real_var, other_content.real_var, ctx.mode)
                 IN  IF Ok(r1)
                     THEN check_valid_range(r1.s, ctx.first, other_content.range_vars, ctx.mode)
                     ELSE r1
             ELSE unify_pool(s, real_var, ctx.second, ctx.mode)
    IN  IF ~Ok(r) THEN r
        ELSE check_valid_range(r.s, ctx.second, range_vars, ctx.mode)

\* unify_ranged_number (unify.rs:378-415)
unify_ranged_number(s, ctx, real_var, range_vars) ==
    LET other_content == ctx.second_desc.content
        r == IF other_content.tag = "FlexVar" THEN
                 merge(s, ctx, RangedNumber(real_var, range_vars))
             ELSE IF other_content.tag = "RangedNumber" THEN
                 LET r1 == unify_pool(s, real_var, other_content.real_var, ctx.mode)
                 IN  IF Ok(r1)
                     THEN check_valid_range(r1.s, ctx.first, other_content.range_vars, ctx.mode)
                     ELSE r1
             ELSE IF other_content.tag = "Error" THEN merge(s, ctx, Error)
             ELSE unify_pool(s, real_var, ctx.second, ctx.mode)
    IN  IF ~Ok(r) THEN r
        ELSE check_valid_range(r.s, ctx.second, range_vars, ctx.mode)

\* the loop over the zipped alias arguments (unify.rs:495-499)
RECURSIVE unify_alias_args(_, _, _, _, _, _)
unify_alias_args(s, args, other_args, i, mode, o) ==
    IF i > Len(args) \/ i > Len(other_args) THEN R(s, o)
    ELSE LET r == unify_pool(s, args[i], other_args[i], mode)
         IN  unify_alias_args(r.s, args, other_args, i + 1, mode, OutcomeUnion(o, r.o))

\* unify_alias whose alias arm does not ask whether either side is opaque
unify_alias_transparent(s, ctx, symbol, args, real_var, kind) ==
    LET other_content == ctx.second_desc.content
        either_is_opaque ==
            kind = "Opaque" \/ (other_content.tag = "Alias" /\ other_content.kind = "Opaque")
    IN
    IF other_content.tag = "FlexVar" THEN merge(s, ctx, Alias(symbol, args, real_var, kind))
    ELSE IF other_content.tag = "RecursionVar" /\ ~either_is_opaque THEN
        unify_pool(s, real_var, other_content.structure, ctx.mode)
    ELSE IF other_content.tag \in {"RigidVar", "RigidAbleVar"} THEN
        unify_pool(s, real_var, ctx.second, ctx.mode)
    ELSE IF other_content.tag = "FlexAbleVar" /\ kind = "Opaque" /\ args = <<>> THEN
        LET r == merge(s, ctx, Alias(symbol, args, real_var, kind))
        IN  R(r.s, Outcome(r.o.mismatches,
                Append(r.o.must_implement_ability,
                       MustImplementAbility(symbol, other_content.ability))))
    ELSE IF other_content.tag = "Alias" THEN
        IF symbol = other_content.symbol THEN
            IF Len(args) = Len(other_content.args) THEN
                LET s1 == Snapshot(s)
                    args_unification_snapshot == LastSnapshot(s1)
                    r1 == unify_alias_args(s1, args, other_content.args, 1, ctx.mode,
                                           OutcomeDefault)
                    r2 == IF Ok(r1)
                          THEN LET m == merge(r1.s, ctx, other_content)
                               IN  R(m.s, OutcomeUnion(r1.o, m.o))
                          ELSE r1
                    args_unification_had_changes ==
                        VarsSinceSnapshot(r2.s, args_unification_snapshot) # {}
                    s3 == CommitSnapshot(r2.s, args_unification_snapshot)
                IN  IF args # <<>> /\ args_unification_had_changes /\ Ok(r2) THEN
                        LET r4 == unify_pool(s3, real_var, other_content.real_var, ctx.mode)
                        IN  R(r4.s, OutcomeUnion(r2.o, r4.o))
                    ELSE R(s3, r2.o)
            ELSE R(s, mismatch)
        ELSE unify_pool(s, real_var, other_content.real_var, ctx.mode)
    ELSE IF other_content.tag = "Structure" /\ ~either_is_opaque THEN
        unify_pool(s, real_var, ctx.second, ctx.mode)
    ELSE IF other_content.tag = "RangedNumber" /\ ~either_is_opaque THEN
        LET r == unify_pool(s, real_var, other_content.real_var, ctx.mode)
        IN  IF Ok(r)
            THEN check_valid_range(r.s, real_var, other_content.range_vars, ctx.mode)
            ELSE r
    ELSE IF other_content.tag = "Error" THEN merge(s, ctx, Error)
    ELSE R(s, mismatch)

\* unify_alias whose FlexAbleVar arm merges and records no obligation
unify_alias_no_obligation(s, ctx, symbol, args, real_var, kind) ==
    LET other_content == ctx.second_desc.content
        either_is_opaque ==
            kind = "Opaque" \/ (other_content.tag = "Alias" /\ other_content.kind = "Opaque")
    IN
    IF other_content.tag = "FlexVar" THEN merge(s, ctx, Alias(symbol, args, real_var, kind))
    ELSE IF other_content.tag = "RecursionVar" /\ ~either_is_opaque THEN
        unify_pool(s, real_var, other_content.structure, ctx.mode)
    ELSE IF other_content.tag \in {"RigidVar", "RigidAbleVar"} THEN
        unify_pool(s, real_var, ctx.second, ctx.mode)
    ELSE IF other_content.tag = "FlexAbleVar" /\ kind = "Opaque" /\ args = <<>> THEN
        merge(s, ctx, Alias(symbol, args, real_var, kind))
    ELSE IF other_content.tag = "Alias"
            /\ (~either_is_opaque \/ symbol = other_content.symbol) THEN
        IF symbol = other_content.symbol THEN
            IF Len(args) = Len(other_content.args) THEN
                LET s1 == Snapshot(s)
                    args_unification_snapshot == LastSnapshot(s1)
                    r1 == unify_alias_args(s1, args, other_content.args, 1, ctx.mode,
                                           OutcomeDefault)
                    r2 == IF Ok(r1)
                          THEN LET m == merge(r1.s, ctx, other_content)
                               IN  R(m.s, OutcomeUnion(r1.o, m.o))
                          ELSE r1
                    args_unification_had_changes ==
                        VarsSinceSnapshot(r2.s, args_unification_snapshot) # {}
                    s3 == CommitSnapshot(r2.s, args_unification_snapshot)
                IN  IF args # <<>> /\ args_unification_had_changes /\ Ok(r2) THEN
                        LET r4 == unify_pool(s3, real_var, other_content.real_var, ctx.mode)
                        IN  R(r4.s, OutcomeUnion(r2.o, r4.o))
                    ELSE R(s3, r2.o)
            ELSE R(s, mismatch)
        ELSE unify_pool(s, real_var, other_content.real_var, ctx.mode)
    ELSE IF other_content.tag = "Structure" /\ ~either_is_opaque THEN
        unify_pool(s, real_var, ctx.second, ctx.mode)
    ELSE IF other_content.tag = "RangedNumber" /\ ~either_is_opaque THEN
        LET r == unify_pool(s, real_var, other_content.real_var, ctx.mode)
        IN  IF Ok(r)
            THEN check_valid_range(r.s, real_var, other_content.range_vars, ctx.mode)
            ELSE r
    ELSE IF other_content.tag = "Error" THEN merge(s, ctx, Error)
    ELSE R(s, mismatch)

\* unify_alias (unify.rs:452-539)
unify_alias(s, ctx, symbol, args, real_var, kind) ==
    LET other_content == ctx.second_desc.content
        either_is_opaque ==
            kind = "Opaque" \/ (other_content.tag = "Alias" /\ other_content.kind = "Opaque")
    IN
    IF other_content.tag = "FlexVar" THEN merge(s, ctx, Alias(symbol, args, real_var, kind))
    ELSE IF other_content.tag = "RecursionVar" /\ ~either_is_opaque THEN
        unify_pool(s, real_var, other_content.structure, ctx.mode)
    ELSE IF other_content.tag \in {"RigidVar", "RigidAbleVar"} THEN
        unify_pool(s, real_var, ctx.second, ctx.mode)
    ELSE IF other_content.tag = "FlexAbleVar" /\ kind = "Opaque" /\ args = <<>> THEN
        LET r == merge(s, ctx, Alias(symbol, args, real_var, kind))
        IN  R(r.s, Outcome(r.o.mismatches,
                Append(r.o.must_implement_ability,
                       MustImplementAbility(symbol, other_content.ability))))
    ELSE IF other_content.tag = "Alias"
            /\ (~either_is_opaque \/ symbol = other_content.symbol) THEN
        IF symbol = other_content.symbol THEN
            IF Len(args) = Len(other_content.args) THEN
                LET s1 == Snapshot(s)
                    args_unification_snapshot == LastSnapshot(s1)
                    r1 == unify_alias_args(s1, args, other_content.args, 1, ctx.mode,
                                           OutcomeDefault)
                    r2 == IF Ok(r1)
                          THEN LET m == merge(r1.s, ctx, other_content)
                               IN  R(m.s, OutcomeUnion(r1.o, m.o))
                          ELSE r1
                    args_unification_had_changes ==
                        VarsSinceSnapshot(r2.s, args_unification_snapshot) # {}
                    s3 == CommitSnapshot(r2.s, args_unification_snapshot)
                IN  IF args # <<>> /\ args_unification_had_changes /\ Ok(r2) THEN
                        LET r4 == unify_pool(s3, real_var, other_content.real_var, ctx.mode)
                        IN  R(r4.s, OutcomeUnion(r2.o, r4.o))
                    ELSE R(s3, r2.o)
            ELSE R(s, mismatch)
        ELSE unify_pool(s, real_var, other_content.real_var, ctx.mode)
    ELSE IF other_content.tag = "Structure" /\ ~either_is_opaque THEN
        unify_pool(s, real_var, ctx.second, ctx.mode)
    ELSE IF other_content.tag = "RangedNumber" /\ ~either_is_opaque THEN
        LET r == unify_pool(s, real_var, other_content.real_var, ctx.mode)
        IN  IF Ok(r)
            THEN check_valid_range(r.s, real_var, other_content.range_vars, ctx.mode)
            ELSE r
    ELSE IF other_content.tag = "Error" THEN merge(s, ctx, Error)
    ELSE R(s, mismatch)

\* the state after a row walk that never ends: the call does not return
Diverge(s) == [s EXCEPT !.diverges = TRUE]

\* the combination of kinds in which Demanded wins over Optional too
shared_field_kind_demanded_wins(actual, expected) ==
    IF "Demanded" \in {actual, expected} THEN "Demanded"
    ELSE IF "Required" \in {actual, expected} THEN "Required"
    ELSE "Optional"

\* the combination of the kinds of a shared field (unify.rs:859-871);
\* "skip" is the `continue` of Demanded with Optional
shared_field_kind(actual, expected) ==
    IF {actual, expected} = {"Demanded", "Optional"} THEN "skip"
    ELSE IF "Demanded" \in {actual, expected} THEN "Demanded"
    ELSE IF actual = "Required" /\ expected = "Required" THEN "Required"
    ELSE IF actual = "Required" /\ expected = "Optional" THEN "Required"
    ELSE IF actual = "Optional" /\ expected = "Required" THEN "Required"
    ELSE "Optional"

\* the loop over the shared fields (unify.rs:841-875)
RECURSIVE unify_shared_fields_loop(_, _, _, _, _)
unify_shared_fields_loop(s, ctx, shared_fields, i, matching_fields) ==
    LET Matching(actual, kind, local) ==
            IF Ok(local) /\ kind # "skip"
            THEN Append(matching_fields, Field(actual.label, kind, actual.var))
            ELSE matching_fields
        Rest(actual, kind, local) ==
            unify_shared_fields_loop(local.s, ctx, shared_fields, i + 1,
                                     Matching(actual, kind, local))
        Step(actual, expected) ==
            Rest(actual, shared_field_kind(actual.kind, expected.kind),
                 unify_pool(s, actual.var, expected.var, ctx.mode))
    IN  IF i > Len(shared_fields) THEN [s |-> s, matching_fields |-> matching_fields]
        ELSE Step(shared_fields[i].l, shared_fields[i].r)

\* OtherFields (unify.rs:823-826)
OtherFieldsNone == [none |-> TRUE, other1 |-> <<>>, other2 |-> <<>>]

OtherFieldsOther(other1, other2) == [none |-> FALSE, other1 |-> other1, other2 |-> other2]

\* unify_shared_fields that leaves the fields of OtherFields::Other out of
\* the merged record
unify_shared_fields_without_others(s, ctx, shared_fields, other_fields, ext) ==
    LET Fields(matching_fields, ext_fields) ==
            IF ext_fields = <<>> THEN matching_fields
            ELSE merge_sorted(matching_fields, ext_fields)
        Merged(done, it) ==
            IF it.loops THEN R(Diverge(done.s), OutcomeDefault)
            ELSE merge(done.s, ctx,
                       Structure(Record(Fields(done.matching_fields, it.fields), it.ext)))
        Done(done) ==
            IF Len(shared_fields) = Len(done.matching_fields)
            THEN Merged(done, sorted_iterator_and_ext(done.s, <<>>, ext))
            ELSE R(done.s, mismatch)
    IN  Done(unify_shared_fields_loop(s, ctx, shared_fields, 1, <<>>))

\* unify_shared_fields (unify.rs:830-926)
unify_shared_fields(s, ctx, shared_fields, other_fields, ext) ==
    LET Fields(matching_fields, ext_fields) ==
            IF other_fields.none THEN
                IF ext_fields = <<>> THEN matching_fields
                ELSE merge_sorted(matching_fields, ext_fields)
            ELSE merge_sorted(
                     merge_sorted(merge_sorted(matching_fields, ext_fields),
                                  other_fields.other1),
                     other_fields.other2)
        Merged(done, it) ==
            IF it.loops THEN R(Diverge(done.s), OutcomeDefault)
            ELSE merge(done.s, ctx,
                       Structure(Record(Fields(done.matching_fields, it.fields), it.ext)))
        Done(done) ==
            IF Len(shared_fields) = Len(done.matching_fields)
            THEN Merged(done, sorted_iterator_and_ext(done.s, <<>>, ext))
            ELSE R(done.s, mismatch)
    IN  Done(unify_shared_fields_loop(s, ctx, shared_fields, 1, <<>>))

\* separate_record_fields (unify.rs:928-946)
separate_record_fields(s, fields1, ext1, fields2, ext2) ==
    LET Separated(it1, it2) ==
            [separate |-> separate(it1.fields, it2.fields), ext1 |-> it1.ext,
             ext2 |-> it2.ext, loops |-> it1.loops \/ it2.loops]
    IN  Separated(sorted_iterator_and_ext(s, fields1, ext1),
                  sorted_iterator_and_ext(s, fields2, ext2))

\* unify_record (unify.rs:714-821)
unify_record(s, ctx, fields1, initial_ext1, fields2, initial_ext2) ==
    LET \* what the four cases hand to the shared fields: the outcome so far,
        \* whether the exts unified, the other fields, and the ext of the result
        Tails(r, other_fields, ext) ==
            [r |-> r, shared |-> Ok(r), other_fields |-> other_fields, ext |-> ext]
        \* both sides have only the shared fields
        Same(sep) ==
            Tails(unify_pool(s, sep.ext1, sep.ext2, ctx.mode), OtherFieldsNone, sep.ext1)
        \* the right side has fields of its own
        RightSub(sep, s1) ==
            Tails(unify_pool(s1, sep.ext1, NewVar(s1), ctx.mode), OtherFieldsNone, NewVar(s1))
        RightMore(sep) ==
            RightSub(sep, fresh(s, ctx, Structure(Record(sep.separate.only_in_2, sep.ext2))))
        \* the left side has fields of its own
        LeftSub(sep, s1) ==
            Tails(unify_pool(s1, NewVar(s1), sep.ext2, ctx.mode), OtherFieldsNone, NewVar(s1))
        LeftMore(sep) ==
            LeftSub(sep, fresh(s, ctx, Structure(Record(sep.separate.only_in_1, sep.ext1))))
        \* both sides have fields of their own
        BothDone(sep, ext, rec1_outcome, rec2_outcome) ==
            IF ~Ok(rec1_outcome) THEN Tails(rec1_outcome, OtherFieldsNone, ext)
            ELSE IF ~Ok(rec2_outcome) THEN Tails(rec2_outcome, OtherFieldsNone, ext)
            ELSE Tails(R(rec2_outcome.s, OutcomeUnion(rec1_outcome.o, rec2_outcome.o)),
                       OtherFieldsOther(sep.separate.only_in_1, sep.separate.only_in_2),
                       ext)
        BothRec2(sep, ext, sub1, rec1_outcome) ==
            BothDone(sep, ext, rec1_outcome,
                     IF Ok(rec1_outcome)
                     THEN unify_pool(rec1_outcome.s, sub1, sep.ext2, ctx.mode)
                     ELSE rec1_outcome)
        BothSub2(sep, ext, sub1, s3) ==
            BothRec2(sep, ext, sub1, unify_pool(s3, sep.ext1, NewVar(s3), ctx.mode))
        BothSub1(sep, ext, s2) ==
            BothSub2(sep, ext, NewVar(s2),
                     fresh(s2, ctx, Structure(Record(sep.separate.only_in_2, ext))))
        BothExt(sep, s1) ==
            BothSub1(sep, NewVar(s1),
                     fresh(s1, ctx, Structure(Record(sep.separate.only_in_1, NewVar(s1)))))
        BothMore(sep) == BothExt(sep, fresh(s, ctx, FlexVar("")))
        Shared(tails, f) == R(f.s, OutcomeUnion(f.o, tails.r.o))
        Finish(sep, tails) ==
            IF ~tails.shared THEN tails.r
            ELSE Shared(tails,
                        unify_shared_fields(tails.r.s, ctx, sep.separate.in_both,
                                            tails.other_fields, tails.ext))
        Cases(sep) ==
            Finish(sep,
                   IF sep.separate.only_in_1 = <<>> THEN
                       IF sep.separate.only_in_2 = <<>> THEN Same(sep) ELSE RightMore(sep)
                   ELSE IF sep.separate.only_in_2 = <<>> THEN LeftMore(sep)
                   ELSE BothMore(sep))
        Separated(sep) == IF sep.loops THEN R(Diverge(s), OutcomeDefault) ELSE Cases(sep)
    IN  Separated(separate_record_fields(s, fields1, initial_ext1, fields2, initial_ext2))

(***************************************************************************)
(* Occurs check and promotion of a tag union to a recursive one.           *)
(***************************************************************************)
\* the variables a flat type holds, in the order the occurs check visits them
FlatChildren(flat) ==
    LET RECURSIVE TagVars(_)
        TagVars(tags) == IF tags = <<>> THEN <<>> ELSE Head(tags).vars \o TagVars(Tail(tags))
        RECURSIVE FieldVars(_)
        FieldVars(fields) ==
            IF fields = <<>> THEN <<>> ELSE <<Head(fields).var>> \o FieldVars(Tail(fields))
    IN  CASE flat.ft = "Apply" -> flat.args
          [] flat.ft = "Func" -> <<flat.ret, flat.closure>> \o flat.args
          [] flat.ft = "Record" -> <<flat.ext>> \o FieldVars(flat.fields)
          [] flat.ft \in {"TagUnion", "RecursiveTagUnion"} -> TagVars(flat.tags) \o <<flat.ext>>
          [] flat.ft = "FunctionOrTagUnion" -> <<flat.ext>>
          [] OTHER -> <<>>

OccursOk == [err |-> FALSE, var |-> 0, chain |-> <<>>]

\* subs.occurs (include_recursion_var FALSE) and
\* subs.occurs_including_recursion_vars (TRUE): Err((root, chain)) when a
\* cycle passes through input_var
RECURSIVE occurs(_, _, _, _)
occurs(s, seen, input_var, include_recursion_var) ==
    LET root_var == Root(s, input_var)
        c == s.desc[root_var].content
        new_seen == seen \cup {root_var}
        children ==
            CASE c.tag = "Structure" -> FlatChildren(c.flat)
              [] c.tag = "Alias" -> c.args
              [] c.tag = "RangedNumber" -> <<c.real_var>>
              [] c.tag = "RecursionVar" /\ include_recursion_var -> <<c.structure>>
              [] OTHER -> <<>>
        RECURSIVE short_circuit(_)
        short_circuit(i) ==
            IF i > Len(children) THEN OccursOk
            ELSE LET r == occurs(s, new_seen, children[i], include_recursion_var)
                 IN  IF r.err
                     THEN [err |-> TRUE, var |-> r.var, chain |-> Append(r.chain, root_var)]
                     ELSE short_circuit(i + 1)
    IN  IF root_var \in seen THEN [err |-> TRUE, var |-> root_var, chain |-> <<>>]
        ELSE short_circuit(1)

\* explicit_substitute: `to` for every occurrence of `from` below in_var,
\* rewriting the descriptors on the way; returns the state, the variable to
\* use in place of in_var, and the variables seen
RECURSIVE explicit_substitute(_, _, _, _, _)
RECURSIVE explicit_substitute_seq(_, _, _, _, _, _)
explicit_substitute_seq(s, from, to, in_vars, i, seen) ==
    LET Cons(h, rest) == [s |-> rest.s, vars |-> <<h.var>> \o rest.vars, seen |-> rest.seen]
        Rest(h) == Cons(h, explicit_substitute_seq(h.s, from, to, in_vars, i + 1, h.seen))
    IN  IF i > Len(in_vars) THEN [s |-> s, vars |-> <<>>, seen |-> seen]
        ELSE Rest(explicit_substitute(s, from, to, in_vars[i], seen))

RECURSIVE explicit_substitute_rows(_, _, _, _, _, _)
explicit_substitute_rows(s, from, to, rows, i, seen) ==
    LET Cons(h, rest) == [s |-> rest.s, rows |-> <<h.row>> \o rest.rows, seen |-> rest.seen]
        Rest(h) == Cons(h, explicit_substitute_rows(h.s, from, to, rows, i + 1, h.seen))
        OfTag(q) == [s |-> q.s, row |-> [rows[i] EXCEPT !.vars = q.vars], seen |-> q.seen]
        OfField(q) == [s |-> q.s, row |-> [rows[i] EXCEPT !.var = q.var], seen |-> q.seen]
    IN  IF i > Len(rows) THEN [s |-> s, rows |-> <<>>, seen |-> seen]
        ELSE IF "vars" \in DOMAIN rows[i]
            THEN Rest(OfTag(explicit_substitute_seq(s, from, to, rows[i].vars, 1, seen)))
        ELSE Rest(OfField(explicit_substitute(s, from, to, rows[i].var, seen)))

explicit_substitute(s, from, to, in_var, seen) ==
    LET in_root == Root(s, in_var)
        c == s.desc[in_root].content
        f == c.flat
        seen1 == seen \cup {in_root}
        Done(q, content) ==
            [s |-> [q.s EXCEPT !.desc[Root(q.s, in_var)].content = content],
             var |-> in_var, seen |-> q.seen]
        ApplyArgs(a) == Done(a, Structure(Apply(f.symbol, a.vars)))
        FuncClosure(a, r, k) == Done(k, Structure(Func(a.vars, k.var, r.var)))
        FuncRet(a, r) == FuncClosure(a, r, explicit_substitute(r.s, from, to, f.closure, r.seen))
        FuncArgs(a) == FuncRet(a, explicit_substitute(a.s, from, to, f.ret, a.seen))
        FunctionOrTagExt(e) ==
            Done(e, Structure(FunctionOrTagUnion(f.tag_name, f.symbol, e.var)))
        UnionTags(e, g) == Done(g, Structure([f EXCEPT !.tags = g.rows, !.ext = e.var]))
        UnionExt(e) == UnionTags(e, explicit_substitute_rows(e.s, from, to, f.tags, 1, e.seen))
        RecordFields(e, g) == Done(g, Structure(Record(g.rows, e.var)))
        RecordExt(e) ==
            RecordFields(e, explicit_substitute_rows(e.s, from, to, f.fields, 1, e.seen))
        AliasReal(a, r) == Done(r, Alias(c.symbol, a.vars, r.var, c.kind))
        AliasArgs(a) == AliasReal(a, explicit_substitute(a.s, from, to, c.real_var, a.seen))
        RangedReal(r) == Done(r, RangedNumber(r.var, c.range_vars))
    IN
    IF in_root \in seen THEN [s |-> s, var |-> in_var, seen |-> seen]
    ELSE IF Root(s, from) = in_root THEN [s |-> s, var |-> to, seen |-> seen1]
    ELSE IF c.tag = "Structure" THEN
        CASE f.ft = "Apply" -> ApplyArgs(explicit_substitute_seq(s, from, to, f.args, 1, seen1))
          [] f.ft = "Func" -> FuncArgs(explicit_substitute_seq(s, from, to, f.args, 1, seen1))
          [] f.ft = "FunctionOrTagUnion" ->
               FunctionOrTagExt(explicit_substitute(s, from, to, f.ext, seen1))
          [] f.ft \in {"TagUnion", "RecursiveTagUnion"} ->
               UnionExt(explicit_substitute(s, from, to, f.ext, seen1))
          [] f.ft = "Record" -> RecordExt(explicit_substitute(s, from, to, f.ext, seen1))
          [] OTHER -> [s |-> s, var |-> in_var, seen |-> seen1]
    ELSE IF c.tag = "Alias" THEN
        AliasArgs(explicit_substitute_seq(s, from, to, c.args, 1, seen1))
    ELSE IF c.tag = "RangedNumber" THEN
        RangedReal(explicit_substitute(s, from, to, c.real_var, seen1))
    ELSE [s |-> s, var |-> in_var, seen |-> seen1]

\* subs.mark_tag_union_recursive: a fresh RecursionVar pointing back at
\* `recursive` replaces every occurrence of it in tags and ext
mark_tag_union_recursive(s, recursive, tags, ext_var) ==
    LET Marked(rec_var, g, e) ==
            [e.s EXCEPT !.desc[Root(e.s, recursive)].content =
                 Structure(RecursiveTagUnion(rec_var, g.rows, e.var))]
        InExt(rec_var, g) ==
            Marked(rec_var, g, explicit_substitute(g.s, recursive, rec_var, ext_var, {}))
        InTags(s1) ==
            InExt(NewVar(s1), explicit_substitute_rows(s1, recursive, NewVar(s1), tags, 1, {}))
    IN  InTags(Fresh(s, Descriptor(RecursionVar("", recursive), Get(s, recursive).rank)))

\* maybe_mark_tag_union_recursive (unify.rs:1248-1266); fuel bounds the
\* `while let`, and a chain with no tag union is the panic
RECURSIVE maybe_mark_tag_union_recursive(_, _, _)
maybe_mark_tag_union_recursive(s, tag_union_var, fuel) ==
    LET IsTagUnion(v) ==
            Content(s, v).tag = "Structure" /\ Content(s, v).flat.ft = "TagUnion"
        Walk(o) == SubSeq(o.chain, 1, Len(o.chain) - 1)
        Hits(o) == {i \in 1..Len(Walk(o)) : IsTagUnion(Walk(o)[i])}
        First(o) == CHOOSE i \in Hits(o) : \A j \in Hits(o) : i <= j
        Found(o) == IF IsTagUnion(o.var) THEN o.var ELSE Walk(o)[First(o)]
        Mark(v) == mark_tag_union_recursive(s, v, Content(s, v).flat.tags,
                                            Content(s, v).flat.ext)
        Loop(o) ==
            IF ~o.err THEN s
            ELSE IF fuel = 0 THEN Diverge(s)
            ELSE IF IsTagUnion(o.var) \/ Hits(o) # {}
                THEN maybe_mark_tag_union_recursive(Mark(Found(o)), tag_union_var, fuel - 1)
            ELSE Diverge(s)
    IN  Loop(occurs(s, {}, tag_union_var, FALSE))

(***************************************************************************)
(* Tag unions.                                                             *)
(***************************************************************************)
\* Rec (unify.rs:1060-1066)
RecNone == [kind |-> "None", rec |-> 0]

RecLeft(rec) == [kind |-> "Left", rec |-> rec]

RecRight(rec) == [kind |-> "Right", rec |-> rec]

RecBoth(rec1, rec2) == [kind |-> "Both", rec |-> rec1]

\* OtherTags2 (unify.rs:1239-1246)
OtherTags2Empty == [empty |-> TRUE, other1 |-> <<>>, other2 |-> <<>>]

OtherTags2Union(other1, other2) == [empty |-> FALSE, other1 |-> other1, other2 |-> other2]

\* separate_union_tags (unify.rs:1047-1058)
separate_union_tags(s, tags1, ext1, tags2, ext2) ==
    LET it1 == sorted_slices_iterator_and_ext(s, tags1, ext1)
        it2 == sorted_slices_iterator_and_ext(s, tags2, ext2)
    IN  [separate |-> separate(it1.tags, it2.tags), ext1 |-> it1.ext, ext2 |-> it2.ext,
         loops |-> it1.loops \/ it2.loops]

\* the loop over the zipped payloads of one shared tag (unify.rs:1286-1334)
RECURSIVE unify_shared_tag_vars(_, _, _, _, _, _, _)
unify_shared_tag_vars(s, ctx, actual_vars, expected_vars, i, recursion_var, matching_vars) ==
    LET actual == actual_vars[i]
        expected == expected_vars[i]
        Pushed(r) == IF ~Ok(r) THEN matching_vars
                     ELSE IF recursion_var.kind = "Right" THEN Append(matching_vars, expected)
                     ELSE Append(matching_vars, actual)
        Unified(r) == unify_shared_tag_vars(r.s, ctx, actual_vars, expected_vars, i + 1,
                                            recursion_var, Pushed(r))
        MarkedBoth(s2) == Unified(unify_pool(s2, actual, expected, ctx.mode))
        MarkedActual(s1) == MarkedBoth(maybe_mark_tag_union_recursive(s1, expected, MaxVars))
    IN  IF i > Len(actual_vars) \/ i > Len(expected_vars)
        THEN [s |-> s, matching_vars |-> matching_vars]
        ELSE MarkedActual(maybe_mark_tag_union_recursive(s, actual, MaxVars))

\* the loop over the shared tags (unify.rs:1280-1340)
RECURSIVE unify_shared_tags_loop(_, _, _, _, _, _)
unify_shared_tags_loop(s, ctx, shared_tags, i, recursion_var, matching_tags) ==
    LET actual_vars == shared_tags[i].l.vars
        expected_vars == shared_tags[i].r.vars
        Matching(done) ==
            IF Len(actual_vars) = Len(expected_vars)
                   /\ Len(actual_vars) = Len(done.matching_vars)
            THEN Append(matching_tags, Tag(shared_tags[i].label, done.matching_vars))
            ELSE matching_tags
        Rest(done) == unify_shared_tags_loop(done.s, ctx, shared_tags, i + 1, recursion_var,
                                             Matching(done))
    IN  IF i > Len(shared_tags) THEN [s |-> s, matching_tags |-> matching_tags]
        ELSE Rest(unify_shared_tag_vars(s, ctx, actual_vars, expected_vars, 1,
                                        recursion_var, <<>>))

\* unify_shared_tags_merge_new (unify.rs:1394-1410)
unify_shared_tags_merge_new(s, ctx, new_tags, new_ext_var, recursion_var) ==
    LET flat_type == IF recursion_var.kind = "None" THEN TagUnion(new_tags, new_ext_var)
                     ELSE RecursiveTagUnion(recursion_var.rec, new_tags, new_ext_var)
    IN  merge(s, ctx, Structure(flat_type))

\* unify_shared_tags_new (unify.rs:1268-1392)
unify_shared_tags_new(s, ctx, shared_tags, other_tags, ext, recursion_var) ==
    LET NewTags(matching_tags, ext_fields) ==
            IF other_tags.empty THEN
                IF ext_fields = <<>> THEN matching_tags
                ELSE merge_sorted(matching_tags, ext_fields)
            ELSE merge_sorted(
                     merge_sorted(merge_sorted(matching_tags, ext_fields),
                                  other_tags.other1),
                     other_tags.other2)
        Merged(done, it) ==
            IF it.loops THEN R(Diverge(done.s), OutcomeDefault)
            ELSE unify_shared_tags_merge_new(done.s, ctx, NewTags(done.matching_tags, it.tags),
                                             it.ext, recursion_var)
        Shared(done) ==
            IF Len(shared_tags) = Len(done.matching_tags)
            THEN Merged(done, sorted_slices_iterator_and_ext(done.s, <<>>, ext))
            ELSE R(done.s, mismatch)
    IN  Shared(unify_shared_tags_loop(s, ctx, shared_tags, 1, recursion_var, <<>>))

\* unify_tag_union_new (unify.rs:1069-1237).  Each of the four cases of the
\* match on the tags that are only on one side ends with what it has done
\* to the tails: r, the Outcome so far; shared, whether the shared tags are
\* unified next, and then with which other tags and tail; add, whether the
\* Outcome of the tails is added to the one of the shared tags.
unify_tag_union_new(s, ctx, tags1, initial_ext1, tags2, initial_ext2, recursion_var) ==
    LET Opens(sep) ==
            /\ is_present(ctx.mode)
            /\ Content(s, sep.ext1).tag = "Structure"
            /\ Content(s, sep.ext1).flat.ft = "EmptyTagUnion"
            /\ sep.separate.only_in_2 # <<>>
        \* a fresh ext for the left union that the presence constraint fills
        Opened(new_ext_s) ==
            [s |-> Set(new_ext_s, ctx.first,
                       [ctx.first_desc EXCEPT
                           !.content = Structure(TagUnion(tags1, NewVar(new_ext_s)))]),
             ext1 |-> NewVar(new_ext_s)]
        LeftTail(sep) == IF Opens(sep) THEN Opened(fresh(s, ctx, FlexVar("")))
                     ELSE [s |-> s, ext1 |-> sep.ext1]
        Tails(ext_outcome, ext, add) ==
            [r |-> ext_outcome, shared |-> Ok(ext_outcome), other_tags |-> OtherTags2Empty,
             ext |-> ext, add |-> add]
        \* both sides have only the shared tags
        Same(sep, left) ==
            Tails(IF is_eq(ctx.mode) THEN unify_pool(left.s, left.ext1, sep.ext2, ctx.mode)
                  ELSE R(left.s, OutcomeDefault),
                  left.ext1, TRUE)
        \* the right side has tags of its own
        RightSub(left, s1) ==
            Tails(unify_pool(s1, left.ext1, NewVar(s1), ctx.mode), NewVar(s1), TRUE)
        RightMore(sep, left) ==
            RightSub(left, fresh(left.s, ctx,
                                 Structure(TagUnion(sep.separate.only_in_2, sep.ext2))))
        \* the left side has tags of its own
        LeftSub(sep, s1) ==
            Tails(IF is_eq(ctx.mode) THEN unify_pool(s1, NewVar(s1), sep.ext2, ctx.mode)
                  ELSE R(s1, OutcomeDefault),
                  NewVar(s1), FALSE)
        LeftMore(sep, left) ==
            LeftSub(sep, fresh(left.s, ctx,
                               Structure(TagUnion(sep.separate.only_in_1, left.ext1))))
        \* both sides have tags of their own
        BothDone(sep, ext, snapshot, ext1_outcome, ext2_outcome) ==
            IF ~Ok(ext1_outcome) THEN
                [r |-> R(RollbackTo(ext1_outcome.s, snapshot), ext1_outcome.o),
                 shared |-> FALSE, other_tags |-> OtherTags2Empty, ext |-> ext, add |-> FALSE]
            ELSE IF ~Ok(ext2_outcome) THEN
                [r |-> R(RollbackTo(ext2_outcome.s, snapshot), ext2_outcome.o),
                 shared |-> FALSE, other_tags |-> OtherTags2Empty, ext |-> ext, add |-> FALSE]
            ELSE
                [r |-> R(CommitSnapshot(ext2_outcome.s, snapshot), OutcomeDefault),
                 shared |-> TRUE,
                 other_tags |-> OtherTags2Union(sep.separate.only_in_1,
                                                sep.separate.only_in_2),
                 ext |-> ext, add |-> FALSE]
        BothExt2(sep, ext, sub1, snapshot, ext1_outcome) ==
            BothDone(sep, ext, snapshot, ext1_outcome,
                     IF is_eq(ctx.mode)
                     THEN unify_pool(ext1_outcome.s, sub1, sep.ext2, ctx.mode)
                     ELSE R(ext1_outcome.s, OutcomeDefault))
        BothExt1(sep, left, ext, sub1, sub2, s4) ==
            BothExt2(sep, ext, sub1, LastSnapshot(s4),
                     unify_pool(s4, left.ext1, sub2, ctx.mode))
        BothSub2(sep, left, ext, sub1, s3) ==
            BothExt1(sep, left, ext, sub1, NewVar(s3), Snapshot(s3))
        BothSub1(sep, left, ext, s2) ==
            BothSub2(sep, left, ext, NewVar(s2),
                     fresh(s2, ctx, Structure(TagUnion(sep.separate.only_in_2, ext))))
        BothExt(sep, left, s1) ==
            BothSub1(sep, left, NewVar(s1),
                     fresh(s1, ctx, Structure(TagUnion(sep.separate.only_in_1, NewVar(s1)))))
        BothMore(sep, left) ==
            BothExt(sep, left,
                    fresh(left.s, ctx, IF is_present(ctx.mode) THEN Structure(EmptyTagUnion)
                                       ELSE FlexVar("")))
        Shared(sep, tails, t) ==
            IF tails.add THEN R(t.s, OutcomeUnion(t.o, tails.r.o)) ELSE t
        Finish(sep, tails) ==
            IF ~tails.shared THEN tails.r
            ELSE Shared(sep, tails,
                        unify_shared_tags_new(tails.r.s, ctx, sep.separate.in_both,
                                              tails.other_tags, tails.ext, recursion_var))
        Cases(sep, left) ==
            Finish(sep,
                   IF sep.separate.only_in_1 = <<>> THEN
                       IF sep.separate.only_in_2 = <<>> THEN Same(sep, left)
                       ELSE RightMore(sep, left)
                   ELSE IF sep.separate.only_in_2 = <<>> THEN LeftMore(sep, left)
                   ELSE BothMore(sep, left))
        Separated(sep) ==
            IF sep.loops THEN R(Diverge(s), OutcomeDefault) ELSE Cases(sep, LeftTail(sep))
    IN  Separated(separate_union_tags(s, tags1, initial_ext1, tags2, initial_ext2))

(***************************************************************************)
(* Flat types and structures.                                              *)
(***************************************************************************)
\* unify_zip_slices (unify.rs:1599-1617): pairwise, always under EQ
RECURSIVE unify_zip_slices_from(_, _, _, _, _)
unify_zip_slices_from(s, left, right, i, o) ==
    LET Rest(r) == unify_zip_slices_from(r.s, left, right, i + 1, OutcomeUnion(o, r.o))
    IN  IF i > Len(left) \/ i > Len(right) THEN R(s, o)
        ELSE Rest(unify_pool(s, left[i], right[i], EQ))

unify_zip_slices(s, left, right) == unify_zip_slices_from(s, left, right, 1, OutcomeDefault)

\* the tag name of the lambda set of a FunctionOrTagUnion,
\* TagName::Closure(tag_symbol); it sorts apart from every Global tag
ClosureTag == 0

\* unify_function_or_tag_union_and_func (unify.rs:1886-1949)
unify_function_or_tag_union_and_func(s, ctx, tag_name, tag_symbol, tag_ext, function_arguments, function_return, function_lambda_set, left) ==
    LET Finish(r2, o) ==
            IF o.mismatches = <<>> THEN
                R(Union(r2.s, ctx.first, ctx.second,
                        IF left THEN Get(r2.s, ctx.second) ELSE Get(r2.s, ctx.first)), o)
            ELSE R(r2.s, o)
        LambdaSets(r1, r2) == Finish(r2, OutcomeUnion(r1.o, r2.o))
        \* tag_lambda_set is NewVar(s3)
        TagLambdaSet(r1, s3) ==
            LambdaSets(r1,
                       IF left THEN unify_pool(s3, NewVar(s3), function_lambda_set, ctx.mode)
                       ELSE unify_pool(s3, function_lambda_set, NewVar(s3), ctx.mode))
        \* lambda_set_ext is NewVar(s2)
        LambdaSetExt(r1, s2) ==
            TagLambdaSet(r1,
                register(s2,
                    [content |-> Structure(TagUnion(<<Tag(ClosureTag, <<>>)>>, NewVar(s2))),
                     rank |-> Min(ctx.first_desc.rank, ctx.second_desc.rank),
                     mark |-> MarkNONE]))
        Return(r1) == LambdaSetExt(r1, fresh_unnamed_flex_var(r1.s))
        \* new_tag_union_var is NewVar(s1)
        NewTagUnion(s1) ==
            Return(IF left THEN unify_pool(s1, NewVar(s1), function_return, ctx.mode)
                   ELSE unify_pool(s1, function_return, NewVar(s1), ctx.mode))
    IN  NewTagUnion(fresh(s, ctx,
                          Structure(TagUnion(<<Tag(tag_name, function_arguments)>>, tag_ext))))

\* unify_flat_type (unify.rs:1413-1597).  Each arm of the match names what
\* it calls; Run makes the call.
unify_flat_type(s, ctx, left, right) ==
    LET Pool(a, b) == [arm |-> "unify_pool", a |-> a, b |-> b]
        Tags(flat) ==
            IF flat.ft = "FunctionOrTagUnion" THEN <<Tag(flat.tag_name, <<>>)>> ELSE flat.tags
        TagUnions(recursion_var, both) ==
            [arm |-> "unify_tag_union_new", recursion_var |-> recursion_var, both |-> both]
        TagAndFunc(tag, func, tag_is_left) ==
            [arm |-> "unify_function_or_tag_union_and_func",
             tag |-> tag, func |-> func, left |-> tag_is_left]
        Only(arm) == [arm |-> arm]
        Arm(l, r) ==
            IF l = "EmptyRecord" /\ r = "EmptyRecord" THEN Only("merge")
            ELSE IF l = "Record" /\ r = "EmptyRecord" /\ has_only_optional_fields(left.fields)
                THEN Pool(left.ext, ctx.second)
            ELSE IF l = "EmptyRecord" /\ r = "Record" /\ has_only_optional_fields(right.fields)
                THEN Pool(ctx.first, right.ext)
            ELSE IF l = "Record" /\ r = "Record" THEN Only("unify_record")
            ELSE IF l = "EmptyTagUnion" /\ r = "EmptyTagUnion" THEN Only("merge")
            ELSE IF l = "TagUnion" /\ r = "EmptyTagUnion" /\ left.tags = <<>>
                THEN Pool(left.ext, ctx.second)
            ELSE IF l = "EmptyTagUnion" /\ r = "TagUnion" /\ right.tags = <<>>
                THEN Pool(ctx.first, right.ext)
            ELSE IF l = "TagUnion" /\ r = "TagUnion" THEN TagUnions(RecNone, FALSE)
            ELSE IF l = "RecursiveTagUnion" /\ r = "TagUnion"
                THEN TagUnions(RecLeft(left.rec), FALSE)
            ELSE IF l = "TagUnion" /\ r = "RecursiveTagUnion"
                THEN TagUnions(RecRight(right.rec), FALSE)
            ELSE IF l = "RecursiveTagUnion" /\ r = "RecursiveTagUnion"
                THEN TagUnions(RecBoth(left.rec, right.rec), TRUE)
            ELSE IF l = "Apply" /\ r = "Apply" /\ left.symbol = right.symbol THEN Only("Apply")
            ELSE IF l = "Func" /\ r = "Func" /\ Len(left.args) = Len(right.args)
                THEN Only("Func")
            ELSE IF l = "FunctionOrTagUnion" /\ r = "Func" THEN TagAndFunc(left, right, TRUE)
            ELSE IF l = "Func" /\ r = "FunctionOrTagUnion" THEN TagAndFunc(right, left, FALSE)
            ELSE IF l = "FunctionOrTagUnion" /\ r = "FunctionOrTagUnion" THEN
                IF left.tag_name = right.tag_name THEN Only("same tag")
                ELSE TagUnions(RecNone, FALSE)
            ELSE IF l = "TagUnion" /\ r = "FunctionOrTagUnion" THEN TagUnions(RecNone, FALSE)
            ELSE IF l = "FunctionOrTagUnion" /\ r = "TagUnion" THEN TagUnions(RecNone, FALSE)
            ELSE IF l = "RecursiveTagUnion" /\ r = "FunctionOrTagUnion"
                THEN TagUnions(RecLeft(left.rec), FALSE)
            ELSE IF l = "FunctionOrTagUnion" /\ r = "RecursiveTagUnion"
                THEN TagUnions(RecRight(right.rec), FALSE)
            ELSE Only("mismatch")
        \* two recursive unions: the recursion variables are unified as well
        Recs(t, u) == R(u.s, OutcomeUnion(t.o, u.o))
        TagUnionsDone(arm, t) ==
            IF arm.both THEN Recs(t, unify_pool(t.s, left.rec, right.rec, ctx.mode)) ELSE t
        ApplyMerged(z, m) == R(m.s, OutcomeUnion(z.o, m.o))
        ApplyDone(z) ==
            IF Ok(z)
            THEN ApplyMerged(z, merge(z.s, ctx, Structure(Apply(right.symbol, right.args))))
            ELSE z
        FuncMerged(o, m) == R(m.s, OutcomeUnion(o, m.o))
        FuncDone(closure_outcome, o) ==
            IF o.mismatches = <<>>
            THEN FuncMerged(o, merge(closure_outcome.s, ctx,
                                     Structure(Func(right.args, right.closure, right.ret))))
            ELSE R(closure_outcome.s, o)
        FuncClosure(arg_outcome, ret_outcome, closure_outcome) ==
            FuncDone(closure_outcome,
                     OutcomeUnion(OutcomeUnion(ret_outcome.o, closure_outcome.o),
                                  arg_outcome.o))
        FuncRet(arg_outcome, ret_outcome) ==
            FuncClosure(arg_outcome, ret_outcome,
                        unify_pool(ret_outcome.s, left.closure, right.closure, ctx.mode))
        FuncArgs(arg_outcome) ==
            FuncRet(arg_outcome, unify_pool(arg_outcome.s, left.ret, right.ret, ctx.mode))
        SameTag(e) == IF Ok(e) THEN merge(e.s, ctx, Content(e.s, ctx.second)) ELSE e
        Run(arm) ==
            CASE arm.arm = "merge" -> merge(s, ctx, Structure(left))
              [] arm.arm = "unify_pool" -> unify_pool(s, arm.a, arm.b, ctx.mode)
              [] arm.arm = "unify_record" ->
                    unify_record(s, ctx, left.fields, left.ext, right.fields, right.ext)
              [] arm.arm = "unify_tag_union_new" ->
                    TagUnionsDone(arm,
                        unify_tag_union_new(s, ctx, Tags(left), left.ext,
                                            Tags(right), right.ext, arm.recursion_var))
              [] arm.arm = "Apply" -> ApplyDone(unify_zip_slices(s, left.args, right.args))
              [] arm.arm = "Func" -> FuncArgs(unify_zip_slices(s, left.args, right.args))
              [] arm.arm = "unify_function_or_tag_union_and_func" ->
                    unify_function_or_tag_union_and_func(
                        s, ctx, arm.tag.tag_name, arm.tag.symbol, arm.tag.ext,
                        arm.func.args, arm.func.ret, arm.func.closure, arm.left)
              [] arm.arm = "same tag" ->
                    SameTag(unify_pool(s, left.ext, right.ext, ctx.mode))
              [] arm.arm = "mismatch" -> R(s, mismatch)
    IN  Run(Arm(left.ft, right.ft))

\* fix_tag_union_recursion_variable (unify.rs:692-712)
fix_tag_union_recursion_variable(s, ctx, tag_union_promoted_to_recursive, recursion_var) ==
    LET has_recursing_recursive_variable ==
            occurs(s, {}, tag_union_promoted_to_recursive, TRUE).err
    IN  IF ~has_recursing_recursive_variable THEN merge(s, ctx, recursion_var)
        ELSE R(s, OutcomeDefault)

\* unify_structure (unify.rs:542-661)
unify_structure(s, ctx, flat_type, other) ==
    LET \* under a presence constraint a tag union is opened: new_ext is
        \* NewVar(opened)
        Opened(m, opened) ==
            IF is_present(ctx.mode) /\ flat_type.ft = "TagUnion" THEN
                R(Set(opened, ctx.first,
                      [ctx.first_desc EXCEPT
                          !.content = Structure(TagUnion(flat_type.tags, NewVar(opened)))]),
                  m.o)
            ELSE IF is_present(ctx.mode) /\ flat_type.ft = "FunctionOrTagUnion" THEN
                R(Set(opened, ctx.first,
                      [ctx.first_desc EXCEPT
                          !.content = Structure(FunctionOrTagUnion(flat_type.tag_name,
                                                    flat_type.symbol, NewVar(opened)))]),
                  m.o)
            ELSE m
        Flex(m) == Opened(m, fresh_unnamed_flex_var(m.s))
        Fixed(u, f) == R(f.s, OutcomeUnion(u.o, f.o))
        Recursion(u) ==
            IF Ok(u) THEN Fixed(u, fix_tag_union_recursion_variable(u.s, ctx, ctx.first, other))
            ELSE u
        Ranged(u) ==
            IF Ok(u) THEN check_valid_range(u.s, ctx.first, other.range_vars, ctx.mode)
            ELSE u
    IN  IF other.tag = "FlexVar" THEN Flex(merge(s, ctx, Structure(flat_type)))
        ELSE IF other.tag = "RigidVar" THEN R(s, mismatch)
        ELSE IF other.tag = "RecursionVar" THEN
            IF flat_type.ft \in {"TagUnion", "FunctionOrTagUnion"} THEN
                Recursion(unify_pool(s, ctx.first, other.structure, ctx.mode))
            ELSE IF flat_type.ft = "RecursiveTagUnion" THEN
                unify_pool(s, ctx.first, other.structure, ctx.mode)
            ELSE R(s, mismatch)
        ELSE IF other.tag = "Structure" THEN unify_flat_type(s, ctx, flat_type, other.flat)
        ELSE IF other.tag = "Alias" THEN
            IF other.kind = "Structural"
            THEN unify_pool(s, ctx.first, other.real_var, as_eq(ctx.mode))
            ELSE R(s, mismatch)
        ELSE IF other.tag = "RangedNumber" THEN
            Ranged(unify_pool(s, ctx.first, other.real_var, ctx.mode))
        ELSE IF other.tag = "Error" THEN merge(s, ctx, Error)
        ELSE \* FlexAbleVar, RigidAbleVar
            R(s, mismatch_not_able(ctx.first, other.ability))

\* unify_context (unify.rs:330-375)
unify_context(s, ctx) ==
    LET Match(c, other) ==
            CASE c.tag = "FlexVar" -> unify_flex(s, ctx, c.name, "", other)
              [] c.tag = "FlexAbleVar" -> unify_flex(s, ctx, c.name, c.ability, other)
              [] c.tag = "RecursionVar" -> unify_recursion(s, ctx, c.name, c.structure, other)
              [] c.tag = "RigidVar" -> unify_rigid(s, ctx, c.name, "", other)
              [] c.tag = "RigidAbleVar" -> unify_rigid(s, ctx, c.name, c.ability, other)
              [] c.tag = "Structure" -> unify_structure(s, ctx, c.flat, other)
              [] c.tag = "Alias" -> unify_alias(s, ctx, c.symbol, c.args, c.real_var, c.kind)
              [] c.tag = "RangedNumber" ->
                    unify_ranged_number(s, ctx, c.real_var, c.range_vars)
              [] c.tag = "Error" -> merge(s, ctx, Error)
    IN  Match(ctx.first_desc.content, ctx.second_desc.content)

\* unify_pool without the test for variables that are already one class
unify_pool_always_descends(s, var1, var2, mode) ==
    LET Leave(r) == R([r.s EXCEPT !.depth = s.depth], r.o)
    IN  IF s.diverges THEN R(s, OutcomeDefault)
        ELSE IF var1 = var2 THEN R(s, OutcomeDefault)
        ELSE IF s.depth >= MaxDepth THEN R(Diverge(s), OutcomeDefault)
        ELSE Leave(unify_context([s EXCEPT !.depth = @ + 1],
                                 Context(var1, Get(s, var1), var2, Get(s, var2), mode)))

\* unify_pool (unify.rs:255-276).  depth counts the unify_pool calls on the
\* stack; at MaxDepth the call does not return.
unify_pool(s, var1, var2, mode) ==
    LET Leave(r) == R([r.s EXCEPT !.depth = s.depth], r.o)
        Entered ==
            [s EXCEPT !.depth = @ + 1,
                      !.log = Append(@, [ev |-> "unify_pool", a |-> var1, b |-> var2])]
    IN  IF s.diverges THEN R(s, OutcomeDefault)
        ELSE IF Equivalent(s, var1, var2) THEN
            R([s EXCEPT !.log = Append(@, [ev |-> "unify_pool", a |-> var1, b |-> var2])],
              OutcomeDefault)
        ELSE IF s.depth >= MaxDepth THEN R(Diverge(s), OutcomeDefault)
        ELSE Leave(unify_context(Entered,
                                 Context(var1, Get(s, var1), var2, Get(s, var2), mode)))

\* subs.var_to_error_type_contextual: the problems met while rendering var;
\* a type that expands without end and has no recursion variable is one
var_to_error_type_problems(s, var) == occurs(s, {}, var, FALSE).err

\* a machine state for one call on a table
Machine(table) ==
    [parent |-> table.parent, desc |-> table.desc, pool |-> <<>>, open |-> <<>>,
     log |-> <<>>, ranges |-> <<>>, depth |-> 0, diverges |-> FALSE]

\* unify that reports a mismatch and leaves the two variables as they are
unify_leaves_failure(table, var1, var2, mode) ==
    LET Done(r) ==
            IF r.o.mismatches = <<>> THEN
                [s |-> r.s, o |-> r.o,
                 unified |-> [kind |-> "Success", vars |-> r.s.pool,
                              must_implement_ability |-> r.o.must_implement_ability]]
            ELSE
                [s |-> r.s, o |-> r.o,
                 unified |-> [kind |-> "Failure", vars |-> r.s.pool,
                              do_not_implement_ability |-> {}]]
    IN  Done(unify_pool(Machine(table), var1, var2, mode))

\* unify (unify.rs:208-253): the state left, the Outcome of unify_pool and
\* the Unified returned
unify(table, var1, var2, mode) ==
    LET IsNotAble(m) == m.kind = "DoesNotImplementAbiity"
        do_not_implement_ability(mismatches) ==
            {mismatches[i].ability :
                i \in {j \in 1..Len(mismatches) : IsNotAble(mismatches[j])}}
        Failed(r, problems) ==
            [s |-> Union(r.s, var1, var2, Descriptor(Error, 0)), o |-> r.o,
             unified |-> IF problems
                         THEN [kind |-> "BadType", vars |-> r.s.pool]
                         ELSE [kind |-> "Failure", vars |-> r.s.pool,
                               do_not_implement_ability |->
                                   do_not_implement_ability(r.o.mismatches)]]
        Done(r) ==
            IF r.o.mismatches = <<>> THEN
                [s |-> r.s, o |-> r.o,
                 unified |-> [kind |-> "Success", vars |-> r.s.pool,
                              must_implement_ability |-> r.o.must_implement_ability]]
            ELSE Failed(r, var_to_error_type_problems(r.s, var1)
                           \/ var_to_error_type_problems(r.s, var2))
    IN  Done(unify_pool(Machine(table), var1, var2, mode))

(***************************************************************************)
(* The stores the solver hands to the unifier.  Variables 1..16 are types  *)
(* the two sides refer to; A and B are the variables of a constraint, each *)
(* with one of the contents of Catalog.                                    *)
(***************************************************************************)
Str == 1
I8 == 2
U8 == 3
I16 == 4
EmptyRec == 5
EmptyTags == 6
RecUnion == 13
RecVar == 14
RowA == 15
RowB == 16
A == 17
B == 18

\* the field and tag labels, in sorting order
LabelX == 1
LabelY == 2
LabelZ == 3
LabelCons == 1
LabelNil == 2

ConsList ==
    RecursiveTagUnion(RecVar, <<Tag(LabelCons, <<I8, RecVar>>), Tag(LabelNil, <<>>)>>, EmptyTags)

Background ==
    << Structure(Apply("Str", <<>>)), Structure(Apply("I8", <<>>)),
       Structure(Apply("U8", <<>>)), Structure(Apply("I16", <<>>)),
       Structure(EmptyRecord), Structure(EmptyTagUnion),
       FlexVar(""), FlexVar(""), FlexVar(""), FlexVar(""), FlexVar(""), FlexVar(""),
       Structure(ConsList), RecursionVar("", RecUnion),
       Structure(Record(<<Field(LabelX, "Required", Str)>>, 11)),
       Structure(Record(<<Field(LabelY, "Required", Str)>>, 12)) >>

\* the contents a side can have; f and g are unbound variables of its own,
\* e is its row tail and row its open record
Catalog(f, g, e, row) ==
    { FlexVar(""), FlexVar("a"), FlexAbleVar("", "Hash"), FlexAbleVar("b", "Eq"),
      RigidVar("a"), RigidAbleVar("a", "Hash"), RecursionVar("", RecUnion), Error,
      Structure(Apply("Str", <<>>)), Structure(Apply("I16", <<>>)),
      Structure(Apply("List", <<f>>)), Structure(Apply("List", <<Str>>)),
      Structure(Apply("List", <<>>)),
      Structure(EmptyRecord),
      Structure(Record(<<Field(LabelX, "Demanded", f)>>, EmptyRec)),
      Structure(Record(<<Field(LabelX, "Required", f)>>, EmptyRec)),
      Structure(Record(<<Field(LabelX, "Optional", f)>>, EmptyRec)),
      Structure(Record(<<Field(LabelX, "Optional", Str)>>, e)),
      Structure(Record(<<Field(LabelY, "Required", Str)>>, e)),
      Structure(Record(<<Field(LabelX, "Required", I8), Field(LabelY, "Required", Str)>>,
                       EmptyRec)),
      Structure(Record(<<Field(LabelX, "Required", I8)>>, e)),
      Structure(Record(<<Field(LabelZ, "Required", Str)>>, row)),
      Alias("Foo", <<>>, Str, "Opaque"), Alias("Bar", <<>>, Str, "Opaque"),
      Alias("Wrap", <<f>>, f, "Opaque"), Alias("Wrap", <<Str>>, Str, "Opaque"),
      Alias("Wrap", <<I8>>, I8, "Opaque"), Alias("Wrap", <<row>>, row, "Opaque"),
      Alias("Name", <<>>, Str, "Structural"), Alias("Id", <<f>>, f, "Structural"),
      Alias("Id", <<>>, Str, "Structural"),
      RangedNumber(f, <<I8, U8, I16>>), RangedNumber(I8, <<I8, U8, I16>>),
      RangedNumber(f, <<I8>>), RangedNumber(f, <<U8>>),
      Structure(EmptyTagUnion),
      Structure(TagUnion(<<Tag(LabelCons, <<I8>>)>>, EmptyTags)),
      Structure(TagUnion(<<Tag(LabelNil, <<Str>>)>>, EmptyTags)),
      Structure(TagUnion(<<Tag(LabelCons, <<I8>>)>>, e)),
      Structure(TagUnion(<<Tag(LabelCons, <<I8>>), Tag(LabelNil, <<Str>>)>>, EmptyTags)),
      Structure(FunctionOrTagUnion(LabelCons, "Cons", e)),
      Structure(Func(<<Str>>, g, f)),
      Structure(ConsList) }

CatalogA == Catalog(7, 9, 11, RowA)

CatalogB == Catalog(8, 10, 12, RowB)

Store(ca, cb) ==
    LET contents == Background \o <<ca, cb>>
    IN  [parent |-> [v \in 1..Len(contents) |-> v],
         desc |-> [v \in 1..Len(contents) |->
                      Descriptor(contents[v], IF v = B THEN 2 ELSE 1)]]

Modes == {EQ, PRESENT, EQ \cup RIGID_AS_FLEX, PRESENT \cup RIGID_AS_FLEX}

NoCall == [n |-> 0, var1 |-> 0, var2 |-> 0, mode |-> {}]

Init ==
    /\ \E ca \in CatalogA, cb \in CatalogB : subs = Store(ca, cb)
    /\ before = subs
    /\ call = NoCall
    /\ outcome = OutcomeDefault
    /\ unified = [kind |-> "None"]
    /\ pool = <<>>
    /\ log = <<>>
    /\ ranges = <<>>
    /\ pass = Idle
    /\ lowering = Idle
    /\ parser = Idle

\* the solver calls unify(var1, var2, mode)
Unify(var1, var2, mode) ==
    /\ call.n < MaxCalls
    /\ Len(subs.desc) <= MaxVars
    /\ \E u \in {unify(subs, var1, var2, mode)} :
       /\ ~u.s.diverges
       /\ subs' = Table(u.s)
       /\ before' = subs
       /\ call' = [n |-> call.n + 1, var1 |-> var1, var2 |-> var2, mode |-> mode]
       /\ outcome' = u.o
       /\ unified' = u.unified
       /\ pool' = u.s.pool
       /\ log' = u.s.log
       /\ ranges' = u.s.ranges
       /\ UNCHANGED <<pass, lowering, parser>>

Next == \E var1 \in {A, B}, var2 \in {A, B}, mode \in Modes : Unify(var1, var2, mode)

Spec == Init /\ [][Next]_vars


(***************************************************************************)
(* The claims.  call is the last call made, before the store it was made   *)
(* on, subs the store it left.                                             *)
(***************************************************************************)
Called == call.n > 0

Success == unified.kind = "Success"

Again == unify(subs, call.var1, call.var2, call.mode)

\* C1: after unify(v1, v2, m) has returned, success or failure, the same
\* call made again on the store it left returns an Outcome with no
\* mismatches and no must_implement_ability.
C1_Idempotent == Called => Again.o = OutcomeDefault

\* a call that succeeded and left its two variables in different classes
\* has been made, and made again it returns the empty Outcome
C1_Witness ==
    /\ Called /\ Success
    /\ ~Equivalent(subs, call.var1, call.var2)
    /\ Again.o = OutcomeDefault

Swapped == unify(before, call.var2, call.var1, call.mode)

\* C2: in EQ mode unify(a, b) succeeds exactly when unify(b, a) succeeds
\* from the same store, and on success both orders leave the class of a
\* with the same content.
C2_SymmetricEQ ==
    (Called /\ call.mode = EQ) =>
        /\ Success <=> Swapped.unified.kind = "Success"
        /\ Success => Content(subs, call.var1) = Content(Swapped.s, call.var1)

\* C3: whenever unify(v1, v2, mode) reports a mismatch (Failure or
\* BadType), v1 and v2 are one class on return and its content is Error.
C3_FailureIsError ==
    (Called /\ unified.kind \in {"Failure", "BadType"}) =>
        /\ Equivalent(subs, call.var1, call.var2)
        /\ Content(subs, call.var1) = Error
        /\ Content(subs, call.var2) = Error

\* a call between two distinct variables, neither Error before, has failed
\* after part of the unification had already merged classes
C3_Witness ==
    /\ Called /\ unified.kind = "Failure"
    /\ call.var1 # call.var2
    /\ Content(before, call.var1) # Error /\ Content(before, call.var2) # Error
    /\ \E i \in 1..Len(log) : log[i].ev = "union" /\ {log[i].a, log[i].b} # {A, B}
    /\ Content(subs, call.var1) = Error

\* C4: after every successful unify(v1, v2, mode), v1 and v2 have the same
\* union-find root and read the same descriptor.
C4_SuccessMerges ==
    (Called /\ Success) =>
        /\ Root(subs, call.var1) = Root(subs, call.var2)
        /\ Get(subs, call.var1) = Get(subs, call.var2)

\* C5: if v1 or v2 has content Error, then after unify(v1, v2, mode) both
\* are in one class whose content is Error, whatever the other side was.
C5_ErrorAbsorbs ==
    (Called /\ (Content(before, call.var1) = Error \/ Content(before, call.var2) = Error)) =>
        /\ Equivalent(subs, call.var1, call.var2)
        /\ Content(subs, call.var1) = Error

\* a ranged number has been unified with an Error variable
C5_Witness ==
    /\ Called
    /\ Content(before, call.var1).tag = "RangedNumber"
    /\ Content(before, call.var2) = Error
    /\ ~Equivalent(before, call.var1, call.var2)
    /\ Content(subs, call.var1) = Error

Left == Content(before, call.var1)

Right == Content(before, call.var2)

BothAliases ==
    /\ Called /\ ~Equivalent(before, call.var1, call.var2)
    /\ Left.tag = "Alias" /\ Right.tag = "Alias"

\* the pairwise unification of the argument variables, left to right, on
\* the store of the call
ArgumentsUnify ==
    Ok(unify_alias_args(Machine(before), Left.args, Right.args, 1, call.mode, OutcomeDefault))

\* C6: two aliases of which at least one is opaque and whose symbols
\* differ never unify, even when their real_vars would; two opaque aliases
\* with equal symbols and argument counts unify exactly when their argument
\* variables unify pairwise.
C6_OpaqueDiscipline ==
    /\ (BothAliases /\ "Opaque" \in {Left.kind, Right.kind} /\ Left.symbol # Right.symbol)
         => ~Success
    /\ (BothAliases /\ Left.kind = "Opaque" /\ Right.kind = "Opaque"
          /\ Left.symbol = Right.symbol /\ Len(Left.args) = Len(Right.args))
         => (Success <=> ArgumentsUnify)

\* two opaque aliases with different symbols and the same real_var have
\* been unified, and the call failed
C6_Witness ==
    /\ BothAliases /\ Left.kind = "Opaque" /\ Right.kind = "Opaque"
    /\ Left.symbol # Right.symbol
    /\ Left.real_var = Right.real_var
    /\ unified.kind = "Failure"

\* an opaque alias with no arguments on the left, an able flex variable on
\* the right
OpaqueMeetsAble ==
    /\ Called /\ ~Equivalent(before, call.var1, call.var2)
    /\ Left.tag = "Alias" /\ Left.kind = "Opaque" /\ Left.args = <<>>
    /\ Right.tag = "FlexAbleVar"

\* C7: unifying Alias(Foo, [], _, Opaque) on the left with
\* FlexAbleVar(_, Hash) on the right succeeds, leaves the merged class with
\* the alias content and returns exactly the obligation
\* MustImplement(Foo, Hash).
C7_OpaqueMustImplement ==
    OpaqueMeetsAble =>
        /\ Success
        /\ Equivalent(subs, call.var1, call.var2)
        /\ Content(subs, call.var2) = Left
        /\ outcome.must_implement_ability =
               <<MustImplementAbility(Left.symbol, Right.ability)>>
        /\ unified.must_implement_ability = outcome.must_implement_ability

\* Foo has been unified with an able variable bound by Hash
C7_Witness ==
    /\ OpaqueMeetsAble /\ Left.symbol = "Foo" /\ Right.ability = "Hash"
    /\ Success
    /\ outcome.must_implement_ability = <<MustImplementAbility("Foo", "Hash")>>

\* a ranged number over [I8, U8, I16] on the left
RangedMeets(other) ==
    /\ Called /\ ~Equivalent(before, call.var1, call.var2)
    /\ Left.tag = "RangedNumber" /\ Left.range_vars = <<I8, U8, I16>>
    /\ Right = other

\* C8: unifying RangedNumber(real, [I8, U8, I16]) with I16 succeeds (real
\* unbound); unifying it with Str fails and the mismatches include
\* TypeNotInRange, for every initial content of real; unifying it with a
\* FlexVar succeeds and the merged class has the RangedNumber content.
C8_RangeAdmissibility ==
    /\ (RangedMeets(Structure(Apply("I16", <<>>))) /\ Content(before, Left.real_var).tag = "FlexVar")
         => Success
    /\ RangedMeets(Structure(Apply("Str", <<>>)))
         => (~Success /\ \E i \in 1..Len(outcome.mismatches) :
                            outcome.mismatches[i] = TypeNotInRange)
    /\ RangedMeets(FlexVar(""))
         => (Success /\ Equivalent(subs, call.var1, call.var2)
                     /\ Content(subs, call.var2) = Left)

\* the attempt check_valid_range makes with candidate j of the call c, on
\* the store c found
Attempt(c, j) ==
    unify_pool([Machine(c.pre) EXCEPT !.pool = c.pre_pool], c.var, c.range[j],
               c.mode \cup RIGID_AS_FLEX)

SomeCandidateUnifies(c) == \E j \in 1..Len(c.range) : Ok(Attempt(c, j))

\* C9: if some candidate of the range unifies with v, check_valid_range
\* returns the empty Outcome and leaves the store and the pool exactly as
\* it found them; only when every candidate fails does it return
\* TypeNotInRange, with the edits of the last attempt kept.
C9_RangeCheckFrame ==
    \A i \in 1..Len(ranges) :
        LET c == ranges[i]
            last == Attempt(c, Len(c.range))
        IN  /\ SomeCandidateUnifies(c) =>
                /\ c.o = OutcomeDefault
                /\ c.post = c.pre
                /\ c.post_pool = c.pre_pool
            /\ ~SomeCandidateUnifies(c) =>
                /\ c.o = Outcome(<<TypeNotInRange>>, <<>>)
                /\ c.range # <<>> => (c.post = Table(last.s) /\ c.post_pool = last.s.pool)

\* a range check has failed on its first candidate, matched a later one
\* whose attempt had edited the store, and returned the store it found
C9_Witness ==
    \E i \in 1..Len(ranges) :
        LET c == ranges[i]
        IN  /\ ~Ok(Attempt(c, 1))
            /\ \E j \in 2..Len(c.range) : Ok(Attempt(c, j)) /\ Table(Attempt(c, j).s) # c.pre
            /\ c.o = OutcomeDefault
            /\ c.post = c.pre

\* two records that share their one field, whose value variables unify and
\* whose tails unify and bring no further fields
SharedField ==
    /\ Called /\ ~Equivalent(before, call.var1, call.var2)
    /\ Left.tag = "Structure" /\ Left.flat.ft = "Record" /\ Len(Left.flat.fields) = 1
    /\ Right.tag = "Structure" /\ Right.flat.ft = "Record" /\ Len(Right.flat.fields) = 1
    /\ \A ext \in {Left.flat.ext, Right.flat.ext} :
            Content(before, ext).tag = "Structure" => Content(before, ext).flat.ft # "Record"
    /\ Left.flat.fields[1].label = Right.flat.fields[1].label
    /\ Ok(unify_pool(Machine(before), Left.flat.fields[1].var, Right.flat.fields[1].var,
                     call.mode))
    /\ Ok(unify_pool(Machine(before), Left.flat.ext, Right.flat.ext, call.mode))

Kinds == {Left.flat.fields[1].kind, Right.flat.fields[1].kind}

\* C10: for a record field on both sides whose value variables unify,
\* Demanded with Optional makes the record unification a mismatch, Demanded
\* with Required or Demanded gives Demanded, Required with Required or
\* Optional gives Required, Optional with Optional gives Optional.
C10_SharedFieldLattice ==
    SharedField =>
        IF Kinds = {"Demanded", "Optional"} THEN ~Success
        ELSE /\ Success
             /\ Content(subs, call.var1).tag = "Structure"
             /\ Content(subs, call.var1).flat.ft = "Record"
             /\ Content(subs, call.var1).flat.fields =
                    << Field(Left.flat.fields[1].label,
                             CASE "Demanded" \in Kinds -> "Demanded"
                               [] Kinds = {"Required"} -> "Required"
                               [] Kinds = {"Required", "Optional"} -> "Required"
                               [] Kinds = {"Optional"} -> "Optional",
                             Left.flat.fields[1].var) >>

\* a record with a Required field has been unified with one whose field of
\* the same label is Optional, and the merged field is Required
C10_Witness ==
    /\ SharedField /\ Success
    /\ Left.flat.fields[1].kind = "Optional" /\ Right.flat.fields[1].kind = "Required"
    /\ Content(subs, call.var2).flat.fields[1].kind = "Required"

Labels(row) == {row[i].label : i \in 1..Len(row)}

StrictlySorted(row) == \A i \in 1..Len(row) - 1 : row[i].label < row[i + 1].label

IsRecord(c) == c.tag = "Structure" /\ c.flat.ft = "Record"

\* the fields of a record down its ext chain, and the tail of the chain,
\* on the store the call was made on
RowBefore(c) == sorted_iterator_and_ext(Machine(before), c.flat.fields, c.flat.ext)

\* two variables, each a record, have been unified with success
RecordsMet ==
    Called /\ Success /\ ~Equivalent(before, call.var1, call.var2) /\ IsRecord(Left) /\ IsRecord(Right)

FieldsApart == separate(RowBefore(Left).fields, RowBefore(Right).fields)

Merged == Content(subs, call.var1)

LeftTailAfter == Content(subs, RowBefore(Left).ext)

RightTailAfter == Content(subs, RowBefore(Right).ext)

\* C11: when two records unify successfully, the two variables are one
\* class whose content is one Record; its field names are the union of the
\* field names of both sides, each once.  When only the right side has
\* fields of its own, the tail of the left is bound to a record of exactly
\* those fields.  When both sides have fields of their own, the merged
\* record ends in a variable created by the call, the left tail is bound to
\* the right-only fields and the right tail to the left-only fields, both
\* ending in that same variable.
C11_RowPolymorphicRecords ==
    RecordsMet =>
        /\ Equivalent(subs, call.var1, call.var2)
        /\ IsRecord(Merged)
        /\ StrictlySorted(Merged.flat.fields)
        /\ Labels(Merged.flat.fields)
               = Labels(RowBefore(Left).fields) \cup Labels(RowBefore(Right).fields)
        /\ (FieldsApart.only_in_1 = <<>> /\ FieldsApart.only_in_2 # <<>>) =>
               /\ IsRecord(LeftTailAfter)
               /\ Labels(LeftTailAfter.flat.fields) = Labels(FieldsApart.only_in_2)
        /\ (FieldsApart.only_in_1 # <<>> /\ FieldsApart.only_in_2 # <<>>) =>
               /\ Merged.flat.ext > Len(before.desc)
               /\ IsRecord(LeftTailAfter)
               /\ Labels(LeftTailAfter.flat.fields) = Labels(FieldsApart.only_in_2)
               /\ LeftTailAfter.flat.ext = Merged.flat.ext
               /\ IsRecord(RightTailAfter)
               /\ Labels(RightTailAfter.flat.fields) = Labels(FieldsApart.only_in_1)
               /\ RightTailAfter.flat.ext = Merged.flat.ext

\* { x } with an open tail has met { y } with an open tail and the call
\* succeeded: both sides had fields of their own
C11_Witness ==
    /\ RecordsMet
    /\ FieldsApart.only_in_1 # <<>> /\ FieldsApart.only_in_2 # <<>>
    /\ {LabelX, LabelY} \subseteq Labels(Merged.flat.fields)

\* { x }a has met { x, y } and the call succeeded
C11_WitnessBinds ==
    /\ RecordsMet
    /\ FieldsApart.only_in_1 = <<>> /\ FieldsApart.only_in_2 # <<>>
    /\ FieldsApart.in_both # <<>>

IsTagUnionContent(c) ==
    c.tag = "Structure" /\ c.flat.ft \in {"TagUnion", "RecursiveTagUnion", "FunctionOrTagUnion"}

\* the tags of a union down its ext chain, and the tail of the chain, on the
\* store the call was made on
TagsBefore(c) ==
    sorted_slices_iterator_and_ext(
        Machine(before),
        IF c.flat.ft = "FunctionOrTagUnion" THEN <<Tag(c.flat.tag_name, <<>>)>>
        ELSE c.flat.tags,
        c.flat.ext)

\* a closed tag union on the left has met a tag union under a presence
\* constraint
ClosedMeetsPresent ==
    /\ Called /\ ~Equivalent(before, call.var1, call.var2) /\ PRESENT \subseteq call.mode
    /\ Left.tag = "Structure" /\ Left.flat.ft = "TagUnion"
    /\ Content(before, TagsBefore(Left).ext) = Structure(EmptyTagUnion)
    /\ IsTagUnionContent(Right)

TagsApart == separate(TagsBefore(Left).tags, TagsBefore(Right).tags)

Created == Len(before.desc) + 1 .. Len(subs.desc)

\* new_ext, the first variable the call creates when it opens the left union
NewExt == Len(before.desc) + 1

\* C12: under a presence constraint a closed tag union on the left that
\* meets a union with tags of its own is opened: the first variable the
\* call creates ends as the union of exactly the right-only tags, and on
\* success the left class is a tag union with exactly the tags of both
\* sides; [Cons I8] against [Nil Str] succeeds.  When the right side has no
\* tag of its own, no ext variable is created: every variable the call
\* creates is still the root of its class and holds a tag union.
C12_PresenceOpens ==
    ClosedMeetsPresent =>
        /\ (Left.flat.tags = <<Tag(LabelCons, <<I8>>)>>
              /\ Right = Structure(TagUnion(<<Tag(LabelNil, <<Str>>)>>, EmptyTags)))
               => /\ Success
                  /\ Merged.flat.tags = <<Tag(LabelCons, <<I8>>), Tag(LabelNil, <<Str>>)>>
        /\ (Success /\ TagsApart.only_in_2 # <<>>) =>
               /\ NewExt \in Created
               /\ IsTagUnionContent(Content(subs, NewExt))
               /\ Labels(Content(subs, NewExt).flat.tags) = Labels(TagsApart.only_in_2)
               /\ IsTagUnionContent(Merged)
               /\ StrictlySorted(Merged.flat.tags)
               /\ Labels(Merged.flat.tags)
                      = Labels(TagsBefore(Left).tags) \cup Labels(TagsBefore(Right).tags)
        /\ TagsApart.only_in_2 = <<>> =>
               \A v \in Created :
                   /\ subs.parent[v] = v
                   /\ IsTagUnionContent(subs.desc[v].content)

\* [Cons I8] closed has met [Nil Str] under a presence constraint
C12_Witness ==
    /\ ClosedMeetsPresent /\ Success
    /\ Left.flat.tags = <<Tag(LabelCons, <<I8>>)>>
    /\ Right = Structure(TagUnion(<<Tag(LabelNil, <<Str>>)>>, EmptyTags))

\* a closed union on the left has met a union with no tag of its own, and
\* the call made a variable for the left-only tags
C12_WitnessNoExt ==
    /\ ClosedMeetsPresent /\ Success
    /\ TagsApart.only_in_2 = <<>>
    /\ Created # {}

\* a rigid variable on the left has met another variable in a mode that
\* does not treat rigids as flex
RigidMeets ==
    /\ Called /\ ~Equivalent(before, call.var1, call.var2)
    /\ ~(RIGID_AS_FLEX \subseteq call.mode)
    /\ Left.tag = "RigidVar"

\* C17: without RIGID_AS_FLEX, a RigidVar on the left unified with a
\* different variable succeeds exactly when the right content is FlexVar or
\* Error; with every other right content the Outcome has a mismatch.
C17_RigidDiscipline ==
    RigidMeets =>
        /\ Success <=> Right.tag \in {"FlexVar", "Error"}
        /\ ~Success => outcome.mismatches # <<>>

\* a rigid has met a rigid of the same name and the call failed
C17_Witness ==
    /\ RigidMeets
    /\ Right = Left
    /\ ~Success
    /\ outcome.mismatches # <<>>

\* the log read as brackets: a snapshot opens, a rollback or commit closes.
\* Paired holds when every close is of the snapshot opened last, at the
\* call depth it was opened at, and nothing is open at the end.
RECURSIVE Paired(_, _, _)
Paired(lg, i, stack) ==
    IF i > Len(lg) THEN stack = <<>>
    ELSE IF lg[i].ev = "snapshot" THEN
        /\ lg[i].a = Len(stack) + 1
        /\ Paired(lg, i + 1, Append(stack, lg[i]))
    ELSE IF lg[i].ev \in {"rollback", "commit"} THEN
        /\ stack # <<>>
        /\ lg[i].a = stack[Len(stack)].a
        /\ lg[i].b = lg[i].a
        /\ lg[i].d = stack[Len(stack)].d
        /\ Paired(lg, i + 1, SubSeq(stack, 1, Len(stack) - 1))
    ELSE Paired(lg, i + 1, stack)

SnapshotsTaken == {i \in 1..Len(log) : log[i].ev = "snapshot"}

\* C16: in every call of unify that returns, each snapshot taken is closed
\* by exactly one rollback_to or commit_snapshot, made at the call depth the
\* snapshot was taken at and before any snapshot taken earlier is closed;
\* no snapshot is open when unify returns.
C16_SnapshotPairing == Called => Paired(log, 1, <<>>)

\* a call took a snapshot while another was open, and rolled one back
C16_Witness ==
    /\ Called
    /\ \E i \in SnapshotsTaken : log[i].a = 2
    /\ \E i \in 1..Len(log) : log[i].ev = "rollback"
    /\ \E i \in 1..Len(log) : log[i].ev = "commit"
    /\ Paired(log, 1, <<>>)


(***************************************************************************)
(* The tail-call pass (compiler/mono/src/tail_recursion.rs).  Statements   *)
(* and expressions are the trees of crate::ir, as records.                 *)
(***************************************************************************)
\* Stmt
Let(symbol, expr, layout, cont) ==
    [st |-> "Let", symbol |-> symbol, expr |-> expr, layout |-> layout, cont |-> cont]

Invoke(symbol, called, layout, on_pass, on_fail) ==
    [st |-> "Invoke", symbol |-> symbol, call |-> called, layout |-> layout,
     pass |-> on_pass, fail |-> on_fail]

Switch(cond_symbol, cond_layout, branches, default_branch, ret_layout) ==
    [st |-> "Switch", cond_symbol |-> cond_symbol, cond_layout |-> cond_layout,
     branches |-> branches, default_branch |-> default_branch, ret_layout |-> ret_layout]

Ret(symbol) == [st |-> "Ret", symbol |-> symbol]

Rethrow == [st |-> "Rethrow"]

Refcounting(modify, cont) == [st |-> "Refcounting", modify |-> modify, cont |-> cont]

Join(id, parameters, continuation, remainder) ==
    [st |-> "Join", id |-> id, parameters |-> parameters,
     continuation |-> continuation, remainder |-> remainder]

Jump(id, arguments) == [st |-> "Jump", id |-> id, arguments |-> arguments]

RuntimeError(message) == [st |-> "RuntimeError", message |-> message]

\* a branch of a Switch, (label, info, branch), and its default, (info, branch)
Branch(label, stmt) == [label |-> label, info |-> "None", stmt |-> stmt]

DefaultBranch(stmt) == [info |-> "None", stmt |-> stmt]

\* Param { symbol, borrow, layout }
Param(symbol, borrow, layout) == [symbol |-> symbol, borrow |-> borrow, layout |-> layout]

\* Call { call_type, arguments } with CallType::ByName and CallType::LowLevel
CallByName(name, arguments) ==
    [call_type |-> [ct |-> "ByName", name |-> name], arguments |-> arguments]

CallLowLevel(op, arguments) ==
    [call_type |-> [ct |-> "LowLevel", op |-> op], arguments |-> arguments]

\* Expr::Call and Expr::Literal
ExprCall(called) == [expr |-> "Call", call |-> called]

ExprLiteral(value) == [expr |-> "Literal", value |-> value]

\* Expr::Tag and Expr::UnionAtIndex
ExprTag(tag_layout, tag_id, arguments) ==
    [expr |-> "Tag", tag_layout |-> tag_layout, tag_id |-> tag_id, arguments |-> arguments]

ExprUnionAtIndex(index, tag_id, structure, union_layout) ==
    [expr |-> "UnionAtIndex", index |-> index, tag_id |-> tag_id, structure |-> structure,
     union_layout |-> union_layout]

\* Option<&Stmt>; Panicked is a debug assertion that failed under the call
None == [kind |-> "None"]

Some(stmt) == [kind |-> "Some", v |-> stmt]

Panicked == [kind |-> "Panicked"]

is_some(opt) == opt.kind = "Some"

unwrap_or(opt, default) == IF opt.kind = "Some" THEN opt.v ELSE default

\* the guard of the first arm of insert_jumps (tail_recursion.rs:76-86)
LetReturnsCall(stmt, needle) ==
    /\ stmt.st = "Let"
    /\ stmt.expr.expr = "Call"
    /\ stmt.expr.call.call_type.ct = "ByName"
    /\ stmt.cont.st = "Ret"
    /\ needle = stmt.expr.call.call_type.name
    /\ stmt.symbol = stmt.cont.symbol

\* the guard of the second arm (tail_recursion.rs:94-106)
InvokeReturnsCall(stmt, needle) ==
    /\ stmt.st = "Invoke"
    /\ stmt.call.call_type.ct = "ByName"
    /\ stmt.pass.st = "Ret"
    /\ needle = stmt.call.call_type.name
    /\ stmt.symbol = stmt.pass.symbol

RECURSIVE insert_jumps(_, _, _, _)

\* insert_jumps that builds a new Refcounting whether or not its
\* continuation changed
insert_jumps_copies_refcounting(stmt, goal_id, needle, debug_assertions) ==
    LET \* Some(new) when one of the recursive calls changed something
        Rebuilt(opts, new) ==
            IF \E i \in DOMAIN opts : opts[i] = Panicked THEN Panicked
            ELSE IF \E i \in DOMAIN opts : is_some(opts[i]) THEN Some(new)
            ELSE None
        LetCont(opt_cont) ==
            Rebuilt(<<opt_cont>>,
                    Let(stmt.symbol, stmt.expr, stmt.layout, unwrap_or(opt_cont, stmt.cont)))
        InvokeArms(opt_pass, opt_fail) ==
            Rebuilt(<<opt_pass, opt_fail>>,
                    Invoke(stmt.symbol, stmt.call, stmt.layout,
                           unwrap_or(opt_pass, stmt.pass), unwrap_or(opt_fail, stmt.fail)))
        JoinArms(opt_remainder, opt_continuation) ==
            Rebuilt(<<opt_remainder, opt_continuation>>,
                    Join(stmt.id, stmt.parameters,
                         unwrap_or(opt_continuation, stmt.continuation),
                         unwrap_or(opt_remainder, stmt.remainder)))
        SwitchArms(opt_default, opt_branches) ==
            Rebuilt(<<opt_default>> \o opt_branches,
                    Switch(stmt.cond_symbol, stmt.cond_layout,
                           [i \in DOMAIN stmt.branches |->
                               [stmt.branches[i] EXCEPT
                                   !.stmt = unwrap_or(opt_branches[i], @)]],
                           [stmt.default_branch EXCEPT !.stmt = unwrap_or(opt_default, @)],
                           stmt.ret_layout))
        RefcountingCont(opt_cont) ==
            IF opt_cont = Panicked THEN Panicked
            ELSE Some(Refcounting(stmt.modify, unwrap_or(opt_cont, stmt.cont)))
    IN  IF LetReturnsCall(stmt, needle)
            THEN Some(Jump(goal_id, stmt.expr.call.arguments))
        ELSE IF InvokeReturnsCall(stmt, needle) THEN
            IF debug_assertions /\ stmt.fail # Rethrow THEN Panicked
            ELSE Some(Jump(goal_id, stmt.call.arguments))
        ELSE IF stmt.st = "Let" THEN
            LetCont(insert_jumps(stmt.cont, goal_id, needle, debug_assertions))
        ELSE IF stmt.st = "Invoke" THEN
            InvokeArms(insert_jumps(stmt.pass, goal_id, needle, debug_assertions),
                       insert_jumps(stmt.fail, goal_id, needle, debug_assertions))
        ELSE IF stmt.st = "Join" THEN
            JoinArms(insert_jumps(stmt.remainder, goal_id, needle, debug_assertions),
                     insert_jumps(stmt.continuation, goal_id, needle, debug_assertions))
        ELSE IF stmt.st = "Switch" THEN
            SwitchArms(insert_jumps(stmt.default_branch.stmt, goal_id, needle,
                                    debug_assertions),
                       [i \in DOMAIN stmt.branches |->
                           insert_jumps(stmt.branches[i].stmt, goal_id, needle,
                                        debug_assertions)])
        ELSE IF stmt.st = "Refcounting" THEN
            RefcountingCont(insert_jumps(stmt.cont, goal_id, needle, debug_assertions))
        ELSE \* Rethrow, Ret, Jump, RuntimeError
            None

\* insert_jumps (tail_recursion.rs:67-244).  debug_assertions is the build:
\* with it, the debug_assert_eq! of the second arm panics on an Invoke whose
\* fail arm is not Rethrow; without it, the arm rewrites that Invoke too.
insert_jumps(stmt, goal_id, needle, debug_assertions) ==
    LET \* Some(new) when one of the recursive calls changed something
        Rebuilt(opts, new) ==
            IF \E i \in DOMAIN opts : opts[i] = Panicked THEN Panicked
            ELSE IF \E i \in DOMAIN opts : is_some(opts[i]) THEN Some(new)
            ELSE None
        LetCont(opt_cont) ==
            Rebuilt(<<opt_cont>>,
                    Let(stmt.symbol, stmt.expr, stmt.layout, unwrap_or(opt_cont, stmt.cont)))
        InvokeArms(opt_pass, opt_fail) ==
            Rebuilt(<<opt_pass, opt_fail>>,
                    Invoke(stmt.symbol, stmt.call, stmt.layout,
                           unwrap_or(opt_pass, stmt.pass), unwrap_or(opt_fail, stmt.fail)))
        JoinArms(opt_remainder, opt_continuation) ==
            Rebuilt(<<opt_remainder, opt_continuation>>,
                    Join(stmt.id, stmt.parameters,
                         unwrap_or(opt_continuation, stmt.continuation),
                         unwrap_or(opt_remainder, stmt.remainder)))
        SwitchArms(opt_default, opt_branches) ==
            Rebuilt(<<opt_default>> \o opt_branches,
                    Switch(stmt.cond_symbol, stmt.cond_layout,
                           [i \in DOMAIN stmt.branches |->
                               [stmt.branches[i] EXCEPT
                                   !.stmt = unwrap_or(opt_branches[i], @)]],
                           [stmt.default_branch EXCEPT !.stmt = unwrap_or(opt_default, @)],
                           stmt.ret_layout))
        RefcountingCont(opt_cont) ==
            Rebuilt(<<opt_cont>>, Refcounting(stmt.modify, unwrap_or(opt_cont, stmt.cont)))
    IN  IF LetReturnsCall(stmt, needle)
            THEN Some(Jump(goal_id, stmt.expr.call.arguments))
        ELSE IF InvokeReturnsCall(stmt, needle) THEN
            IF debug_assertions /\ stmt.fail # Rethrow THEN Panicked
            ELSE Some(Jump(goal_id, stmt.call.arguments))
        ELSE IF stmt.st = "Let" THEN
            LetCont(insert_jumps(stmt.cont, goal_id, needle, debug_assertions))
        ELSE IF stmt.st = "Invoke" THEN
            InvokeArms(insert_jumps(stmt.pass, goal_id, needle, debug_assertions),
                       insert_jumps(stmt.fail, goal_id, needle, debug_assertions))
        ELSE IF stmt.st = "Join" THEN
            JoinArms(insert_jumps(stmt.remainder, goal_id, needle, debug_assertions),
                     insert_jumps(stmt.continuation, goal_id, needle, debug_assertions))
        ELSE IF stmt.st = "Switch" THEN
            SwitchArms(insert_jumps(stmt.default_branch.stmt, goal_id, needle,
                                    debug_assertions),
                       [i \in DOMAIN stmt.branches |->
                           insert_jumps(stmt.branches[i].stmt, goal_id, needle,
                                        debug_assertions)])
        ELSE IF stmt.st = "Refcounting" THEN
            RefcountingCont(insert_jumps(stmt.cont, goal_id, needle, debug_assertions))
        ELSE \* Rethrow, Ret, Jump, RuntimeError
            None

\* what a call of the pass comes to: the statement returned, or a panic
Returned(stmt) == [kind |-> "Returned", stmt |-> stmt]

\* make_tail_recursive that adds the join point whether or not a jump was
\* inserted
make_tail_recursive_always_joins(id, needle, stmt, args, debug_assertions) ==
    LET params == [i \in DOMAIN args |-> Param(args[i].symbol, TRUE, args[i].layout)]
        symbols == [i \in DOMAIN args |-> args[i].symbol]
        Wrapped(opt) ==
            IF opt = Panicked THEN Panicked
            ELSE Returned(Join(id, params, unwrap_or(opt, stmt), Jump(id, symbols)))
    IN  Wrapped(insert_jumps(stmt, id, needle, debug_assertions))

\* make_tail_recursive (tail_recursion.rs:29-65); args are the formals,
\* (layout, symbol) each
make_tail_recursive(id, needle, stmt, args, debug_assertions) ==
    LET params == [i \in DOMAIN args |-> Param(args[i].symbol, TRUE, args[i].layout)]
        symbols == [i \in DOMAIN args |-> args[i].symbol]
        Wrapped(opt) ==
            IF opt = Panicked THEN Panicked
            ELSE IF opt = None THEN Returned(stmt)
            ELSE Returned(Join(id, params, opt.v, Jump(id, symbols)))
    IN  Wrapped(insert_jumps(stmt, id, needle, debug_assertions))

(***************************************************************************)
(* The procedures the pass is run on.                                      *)
(***************************************************************************)
\* Nesting of statements around the innermost ones.
MaxStmtDepth == 2

\* the function being compiled, its join point and its formals
Needle == "factorial"

GoalId == 1

Formals == <<[layout |-> "Int", symbol |-> "n"], [layout |-> "Int", symbol |-> "acc"]>>

\* a join point the body already has
InnerId == 2

SelfCall == CallByName(Needle, <<"m", "x">>)

OtherCall == CallByName("helper", <<"m">>)

Leaves == {Ret("x"), Ret("y"), Rethrow, RuntimeError("crash"), Jump(InnerId, <<"x">>)}

\* the statements that bind the result of a call, and those that look like it
Sites ==
    { Let("x", ExprCall(SelfCall), "Int", Ret("x")),
      Let("x", ExprCall(SelfCall), "Int", Ret("y")),
      Let("x", ExprCall(OtherCall), "Int", Ret("x")),
      Let("x", ExprCall(CallLowLevel("NumAdd", <<"m", "x">>)), "Int", Ret("x")),
      Let("x", ExprLiteral(1), "Int", Ret("x")),
      Let("x", ExprCall(SelfCall), "Int", Refcounting("Dec m", Ret("x"))),
      Invoke("x", SelfCall, "Int", Ret("x"), Rethrow),
      Invoke("x", SelfCall, "Int", Ret("x"), RuntimeError("crash")),
      Invoke("x", SelfCall, "Int", Ret("x"), Ret("y")),
      Invoke("x", SelfCall, "Int", Ret("y"), Rethrow),
      Invoke("x", OtherCall, "Int", Ret("x"), Rethrow) }

\* the other arm of a statement with two: one that the pass leaves and one
\* that it rewrites
Fill == {Ret("y"), Let("x", ExprCall(SelfCall), "Int", Ret("x"))}

Around(inner) ==
    {Let("y", ExprLiteral(1), "Int", c) : c \in inner}
    \cup {Refcounting("Inc y", c) : c \in inner}
    \cup {Invoke("y", OtherCall, "Int", p, f) : p \in inner, f \in Fill}
    \cup {Invoke("y", OtherCall, "Int", p, f) : p \in Fill, f \in inner}
    \cup {Join(InnerId, <<Param("x", TRUE, "Int")>>, c, r) : c \in inner, r \in Fill}
    \cup {Join(InnerId, <<Param("x", TRUE, "Int")>>, c, r) : c \in Fill, r \in inner}
    \cup {Switch("m", "Int", <<Branch(0, b)>>, DefaultBranch(d), "Int") :
              b \in inner, d \in Fill}
    \cup {Switch("m", "Int", <<Branch(0, b1), Branch(1, b2)>>, DefaultBranch(d), "Int") :
              b1 \in Fill, b2 \in Fill, d \in inner}

RECURSIVE Stmts(_)
Stmts(depth) ==
    IF depth = 0 THEN Leaves \cup Sites
    ELSE Stmts(depth - 1) \cup Around(Stmts(depth - 1))

\* the unifier when it is not part of the run
UnifierIdle ==
    /\ subs = [parent |-> <<>>, desc |-> <<>>]
    /\ before = subs
    /\ call = NoCall
    /\ outcome = OutcomeDefault
    /\ unified = [kind |-> "None"]
    /\ pool = <<>>
    /\ log = <<>>
    /\ ranges = <<>>

InitTailCall ==
    /\ UnifierIdle
    /\ \E stmt \in Stmts(MaxStmtDepth) : pass = [phase |-> "input", stmt |-> stmt]
    /\ lowering = Idle
    /\ parser = Idle

\* the monomorphizer runs the pass on a procedure body
MakeTailRecursive(debug_assertions) ==
    /\ pass.phase = "input"
    /\ pass' = [phase |-> "done", stmt |-> pass.stmt,
                debug_assertions |-> debug_assertions,
                result |-> make_tail_recursive(GoalId, Needle, pass.stmt, Formals,
                                               debug_assertions)]
    /\ UNCHANGED <<unifier, lowering, parser>>

NextTailCall == \E debug_assertions \in BOOLEAN : MakeTailRecursive(debug_assertions)

SpecTailCall == InitTailCall /\ [][NextTailCall]_vars

(***************************************************************************)
(* The claims about the tail-call pass.  pass.stmt is the body the pass    *)
(* was given, pass.result what the call came to.                           *)
(***************************************************************************)
PassRan == pass.phase = "done"

PassReturned == PassRan /\ pass.result # Panicked

Children(stmt) ==
    CASE stmt.st \in {"Let", "Refcounting"} -> {stmt.cont}
      [] stmt.st = "Invoke" -> {stmt.pass, stmt.fail}
      [] stmt.st = "Join" -> {stmt.remainder, stmt.continuation}
      [] stmt.st = "Switch" ->
            {stmt.default_branch.stmt}
            \cup {stmt.branches[i].stmt : i \in DOMAIN stmt.branches}
      [] OTHER -> {}

RECURSIVE Subtrees(_)
Subtrees(stmt) == {stmt} \cup UNION {Subtrees(c) : c \in Children(stmt)}

\* a statement the pass takes for a tail call of the function
Recognized(stmt) == LetReturnsCall(stmt, Needle) \/ InvokeReturnsCall(stmt, Needle)

HasTailCall(stmt) == \E t \in Subtrees(stmt) : Recognized(t)

\* a tail-call site: the call bound and returned at once, an Invoke only
\* with Rethrow as its fail arm
TailCallSite(stmt) ==
    \/ LetReturnsCall(stmt, Needle)
    \/ InvokeReturnsCall(stmt, Needle) /\ stmt.fail = Rethrow

\* the statement with every site replaced by a jump and nothing else
\* changed; rethrowing_only tells which Invokes count as sites
RECURSIVE Replaced(_, _)
Replaced(stmt, rethrowing_only) ==
    IF LetReturnsCall(stmt, Needle) THEN Jump(GoalId, stmt.expr.call.arguments)
    ELSE IF InvokeReturnsCall(stmt, Needle) /\ (~rethrowing_only \/ stmt.fail = Rethrow)
        THEN Jump(GoalId, stmt.call.arguments)
    ELSE IF stmt.st \in {"Let", "Refcounting"}
        THEN [stmt EXCEPT !.cont = Replaced(@, rethrowing_only)]
    ELSE IF stmt.st = "Invoke"
        THEN [stmt EXCEPT !.pass = Replaced(@, rethrowing_only),
                          !.fail = Replaced(@, rethrowing_only)]
    ELSE IF stmt.st = "Join"
        THEN [stmt EXCEPT !.remainder = Replaced(@, rethrowing_only),
                          !.continuation = Replaced(@, rethrowing_only)]
    ELSE IF stmt.st = "Switch"
        THEN [stmt EXCEPT !.default_branch.stmt = Replaced(@, rethrowing_only),
                          !.branches = [i \in DOMAIN @ |->
                              [@[i] EXCEPT !.stmt = Replaced(@, rethrowing_only)]]]
    ELSE stmt

JoinsOfGoal(stmt) == {t \in Subtrees(stmt) : t.st = "Join" /\ t.id = GoalId}

Body(result) ==
    IF result.stmt.st = "Join" /\ result.stmt.id = GoalId THEN result.stmt.continuation
    ELSE result.stmt

\* C14: the pass returns, and the body of its result is the input with
\* every tail-call site, at any depth, replaced by the jump to the goal id
\* with the arguments of the call, and nothing else changed; an Invoke
\* whose fail arm is not Rethrow is not a site and stays.
C14_ExactRewrite ==
    PassRan =>
        /\ pass.result # Panicked
        /\ Body(pass.result) = Replaced(pass.stmt, TRUE)

SymbolNames == {"xs", "i", "x", "y", "r"}

JoinPointIds == {GoalId, InnerId}

LIST_CELL_INDEX == 0

LIST_BAG_INDEX == 1

LR(m, v) == [m |-> m, v |-> v]

\* FuncDefBuilder::new() and Env::default()
NewLowering ==
    [ops |-> <<>>, values |-> 0, blocks |-> 0, continuations |-> 0,
     symbols |-> [s \in SymbolNames |-> 0], join_points |-> [j \in JoinPointIds |-> 0],
     trace |-> <<>>, type_names |-> {}, named_types |-> {}, panicked |-> FALSE]

\* BlockExpr(block, value)
BlockExpr(block, value) == [block |-> block, value |-> value]

\* every builder.add_* call: the operation is appended to its block and
\* yields a fresh ValueId
add(m, block, op, args, extra) ==
    IF m.panicked THEN LR(m, 0)
    ELSE LR([m EXCEPT !.values = @ + 1,
                      !.ops = Append(@, [op |-> op, block |-> block, args |-> args,
                                         extra |-> extra, value |-> m.values + 1])],
            m.values + 1)

add_block(m) ==
    IF m.panicked THEN LR(m, 0) ELSE LR([m EXCEPT !.blocks = @ + 1], m.blocks + 1)

\* (ContinuationId, ValueId of its argument)
declare_continuation(m, block) ==
    IF m.panicked THEN LR(m, [id |-> 0, argument |-> 0])
    ELSE LR([m EXCEPT !.values = @ + 1, !.continuations = @ + 1,
                      !.ops = Append(@, [op |-> "declare_continuation", block |-> block,
                                         args |-> <<>>, extra |-> <<m.continuations + 1>>,
                                         value |-> m.values + 1])],
            [id |-> m.continuations + 1, argument |-> m.values + 1])

define_continuation(m, jpid, body) ==
    IF m.panicked THEN m
    ELSE [m EXCEPT !.ops = Append(@, [op |-> "define_continuation", block |-> body.block,
                                      args |-> <<body.value>>, extra |-> <<jpid>>,
                                      value |-> 0])]

add_get_tuple_field(m, block, value, index) ==
    add(m, block, "get_tuple_field", <<value>>, <<index>>)

add_make_tuple(m, block, values) == add(m, block, "make_tuple", values, <<>>)

add_touch(m, block, cell) == add(m, block, "touch", <<cell>>, <<>>)

add_recursive_touch(m, block, value) == add(m, block, "recursive_touch", <<value>>, <<>>)

add_update(m, block, update_mode_var, cell) ==
    add(m, block, "update", <<cell>>, update_mode_var)

add_bag_insert(m, block, bag, to_insert) ==
    add(m, block, "bag_insert", <<bag, to_insert>>, <<>>)

add_bag_get(m, block, bag) == add(m, block, "bag_get", <<bag>>, <<>>)

add_new_heap_cell(m, block) == add(m, block, "new_heap_cell", <<>>, <<>>)

add_terminate(m, block) == add(m, block, "terminate", <<>>, <<>>)

add_const_ref(m, block) == add(m, block, "const_ref", <<>>, <<>>)

add_jump(m, block, jpid, argument) == add(m, block, "jump", <<argument>>, <<jpid>>)

add_choice(m, block, cases) ==
    add(m, block, "choice", [i \in DOMAIN cases |-> cases[i].value],
        [i \in DOMAIN cases |-> cases[i].block])

add_sub_block(m, block, sub) == add(m, block, "sub_block", <<sub.value>>, <<sub.block>>)

\* env.symbols[symbol]: indexing a map with an absent key panics
symbols_index(m, symbol) ==
    IF m.panicked THEN LR(m, 0)
    ELSE IF m.symbols[symbol] = 0 THEN LR([m EXCEPT !.panicked = TRUE], 0)
    ELSE LR(m, m.symbols[symbol])

symbols_insert(m, symbol, value_id) ==
    IF m.panicked THEN m ELSE [m EXCEPT !.symbols[symbol] = value_id]

symbols_remove(m, symbol) ==
    IF m.panicked THEN m ELSE [m EXCEPT !.symbols[symbol] = 0]

join_points_index(m, id) ==
    IF m.panicked THEN LR(m, 0)
    ELSE IF m.join_points[id] = 0 THEN LR([m EXCEPT !.panicked = TRUE], 0)
    ELSE LR(m, m.join_points[id])

join_points_insert(m, id, jpid) ==
    IF m.panicked THEN m ELSE [m EXCEPT !.join_points[id] = jpid]

join_points_remove(m, id) ==
    IF m.panicked THEN m ELSE [m EXCEPT !.join_points[id] = 0]

\* the environment at a point of the lowering of a Join
Observed(m, at, id) ==
    IF m.panicked THEN m
    ELSE [m EXCEPT !.trace = Append(@, [at |-> at, id |-> id, symbols |-> m.symbols,
                                        join_points |-> m.join_points])]

\* UpdateModeId::to_bytes: the id as the four bytes of a u32
to_bytes(update_mode) ==
    <<update_mode % 256, (update_mode \div 256) % 256,
      (update_mode \div 65536) % 256, (update_mode \div 16777216) % 256>>

\* with_new_heap_cell that allocates no cell and takes the value for its cell
with_old_heap_cell(m, block, value) == add_make_tuple(m, block, <<value, value>>)

with_new_heap_cell(m, block, value) ==
    LET Made(cell) == add_make_tuple(cell.m, block, <<cell.v, value>>)
    IN  Made(add_new_heap_cell(m, block))


list_append(m, block, update_mode_var, list, to_insert) ==
    LET AppendCell(new_bag) == with_new_heap_cell(new_bag.m, block, new_bag.v)
        AppendInsert(updated, bag) ==
            AppendCell(add_bag_insert(updated.m, block, bag, to_insert))
        AppendUpdate(cell, bag) ==
            AppendInsert(add_update(cell.m, block, update_mode_var, cell.v), bag)
        AppendFields(bag) ==
            AppendUpdate(add_get_tuple_field(bag.m, block, list, LIST_CELL_INDEX), bag.v)
    IN  AppendFields(add_get_tuple_field(m, block, list, LIST_BAG_INDEX))

DICT_CELL_INDEX == LIST_CELL_INDEX

DICT_BAG_INDEX == LIST_BAG_INDEX

\* the low-level operations on lists and dictionaries that lowlevel_spec
\* gives a model of
lowlevel_spec(m, block, layout, op, update_mode, arguments) ==
    LET GetBag(touched, bag) == add_bag_get(touched.m, block, bag)
        GetTouch(cell, bag) == GetBag(add_touch(cell.m, block, cell.v), bag)
        GetCell(bag, list) ==
            GetTouch(add_get_tuple_field(bag.m, block, list, LIST_CELL_INDEX), bag.v)
        GetList(list) ==
            GetCell(add_get_tuple_field(list.m, block, list.v, LIST_BAG_INDEX), list.v)
        ReplaceTuple(new_list, old_value) ==
            add_make_tuple(new_list.m, block, <<new_list.v, old_value>>)
        ReplaceNewList(old_value, bag) ==
            ReplaceTuple(with_new_heap_cell(old_value.m, block, bag), old_value.v)
        ReplaceGet(inserted, bag) ==
            ReplaceNewList(add_bag_get(inserted.m, block, bag), bag)
        ReplaceInsert(unit2, bag, to_insert) ==
            ReplaceGet(add_bag_insert(unit2.m, block, bag, to_insert), bag)
        ReplaceUpdate(unit1, bag, cell, to_insert) ==
            ReplaceInsert(add_update(unit1.m, block, to_bytes(update_mode), cell),
                          bag, to_insert)
        ReplaceTouch(cell, bag, to_insert) ==
            ReplaceUpdate(add_touch(cell.m, block, cell.v), bag, cell.v, to_insert)
        ReplaceCell(bag, list, to_insert) ==
            ReplaceTouch(add_get_tuple_field(bag.m, block, list, LIST_CELL_INDEX),
                         bag.v, to_insert)
        ReplaceBag(to_insert, list) ==
            ReplaceCell(add_get_tuple_field(to_insert.m, block, list, LIST_BAG_INDEX),
                        list, to_insert.v)
        ReplaceList(list) == ReplaceBag(symbols_index(list.m, arguments[3]), list.v)
        SwapCell(unit, bag) == with_new_heap_cell(unit.m, block, bag)
        SwapUpdate(cell, bag) ==
            SwapCell(add_update(cell.m, block, to_bytes(update_mode), cell.v), bag)
        SwapFields(bag, list) ==
            SwapUpdate(add_get_tuple_field(bag.m, block, list, LIST_CELL_INDEX), bag.v)
        SwapList(list) ==
            SwapFields(add_get_tuple_field(list.m, block, list.v, LIST_BAG_INDEX), list.v)
        AppendBoth(to_insert, list) ==
            list_append(to_insert.m, block, to_bytes(update_mode), list, to_insert.v)
        AppendList(list) == AppendBoth(symbols_index(list.m, arguments[2]), list.v)
        InsertCell(inserted, bag) == with_new_heap_cell(inserted.m, block, bag)
        InsertInsert(unit, bag, key_value) ==
            InsertCell(add_bag_insert(unit.m, block, bag, key_value), bag)
        InsertUpdate(cell, bag, key_value) ==
            InsertInsert(add_update(cell.m, block, to_bytes(update_mode), cell.v),
                         bag, key_value)
        InsertFields(bag, dict, key_value) ==
            InsertUpdate(add_get_tuple_field(bag.m, block, dict, DICT_CELL_INDEX),
                         bag.v, key_value)
        InsertTuple(key_value, dict) ==
            InsertFields(add_get_tuple_field(key_value.m, block, dict, DICT_BAG_INDEX),
                         dict, key_value.v)
        InsertValue(value, dict, key) ==
            InsertTuple(add_make_tuple(value.m, block, <<key, value.v>>), dict)
        InsertKey(key, dict) == InsertValue(symbols_index(key.m, arguments[3]), dict, key.v)
        InsertDict(dict) == InsertKey(symbols_index(dict.m, arguments[2]), dict.v)
    IN  CASE op = "ListLen" -> add_make_tuple(m, block, <<>>)
          [] op = "ListGetUnsafe" -> GetList(symbols_index(m, arguments[1]))
          [] op = "ListReplaceUnsafe" -> ReplaceList(symbols_index(m, arguments[1]))
          [] op = "ListSwap" -> SwapList(symbols_index(m, arguments[1]))
          [] op = "ListAppend" -> AppendList(symbols_index(m, arguments[1]))
          [] op = "DictInsert" -> InsertDict(symbols_index(m, arguments[1]))

LayoutCode(layout) ==
    CASE layout = "Int" -> 1 [] layout = "Str" -> 2 [] layout = "List" -> 3
      [] layout = "ConsList" -> 4 [] layout = "Tree" -> 5 [] layout = "Peano" -> 6
      [] layout = "Pair" -> 7

\* DefaultHasher::new() and layout.hash(&mut hasher)
NewHasher == [i \in 1..8 |-> (i * 37) % 256]

hash(hasher, layout) == [i \in 1..8 |-> (hasher[i] * 31 + LayoutCode(layout) * i + 17) % 256]

\* the union layouts of the programs lowered here, each under the name its
\* Layout::Union is written by; tags are the field layouts of the variants
UnionLayouts ==
    [ConsList |-> [ul |-> "Recursive", tags |-> << <<"Int", "RecursivePointer">>, <<>> >>],
     Tree |-> [ul |-> "Recursive", tags |-> << <<"ConsList", "RecursivePointer">> >>],
     Peano |-> [ul |-> "NonNullableUnwrapped", tags |-> << <<"RecursivePointer">> >>],
     Pair |-> [ul |-> "NonRecursive", tags |-> << <<"Int", "Int">> >>]]

TAG_CELL_INDEX == 0

TAG_DATA_INDEX == 1

\* the TagUnionId of a union layout, as bytes
recursive_tag_union_name_bytes(union_layout) == hash(NewHasher, union_layout)

\* TypeContext::add_named_type: a reference to the type of that name
add_named_type(m, type_name) ==
    IF m.panicked THEN m ELSE [m EXCEPT !.named_types = @ \cup {type_name}]

\* when_recursive is "Unreachable" or the union layout of WhenRecursive::Loop
RECURSIVE layout_spec_help(_, _, _)
RECURSIVE build_recursive_tuple_type(_, _, _, _)
RECURSIVE non_recursive_variant_types(_, _, _, _)
layout_spec_help(m, layout, when_recursive) ==
    IF m.panicked THEN m
    ELSE IF layout = "RecursivePointer"
         THEN IF when_recursive = "Unreachable" THEN [m EXCEPT !.panicked = TRUE]
              ELSE add_named_type(m, recursive_tag_union_name_bytes(when_recursive))
    ELSE IF layout \notin DOMAIN UnionLayouts THEN m
    ELSE IF UnionLayouts[layout].ul = "NonRecursive"
         THEN non_recursive_variant_types(m, UnionLayouts[layout].tags, 1, when_recursive)
    ELSE add_named_type(m, recursive_tag_union_name_bytes(layout))

build_recursive_tuple_type(m, layouts, i, when_recursive) ==
    IF i > Len(layouts) THEN m
    ELSE build_recursive_tuple_type(layout_spec_help(m, layouts[i], when_recursive),
                                    layouts, i + 1, when_recursive)

non_recursive_variant_types(m, tags, i, when_recursive) ==
    IF i > Len(tags) THEN m
    ELSE non_recursive_variant_types(
             build_recursive_tuple_type(m, tags[i], 1, when_recursive),
             tags, i + 1, when_recursive)

layout_spec(m, layout, when_recursive) == layout_spec_help(m, layout, when_recursive)

RECURSIVE recursive_variant_tags(_, _, _)
recursive_variant_tags(m, union_layout, i) ==
    IF i > Len(UnionLayouts[union_layout].tags) THEN m
    ELSE recursive_variant_tags(
             build_recursive_tuple_type(m, UnionLayouts[union_layout].tags[i], 1,
                                        union_layout),
             union_layout, i + 1)

recursive_variant_types(m, union_layout) ==
    IF m.panicked THEN m
    ELSE IF UnionLayouts[union_layout].ul = "NonRecursive" THEN [m EXCEPT !.panicked = TRUE]
    ELSE recursive_variant_tags(m, union_layout, 1)

add_make_union(m, block, variant, to_wrap) ==
    add(m, block, "make_union", <<to_wrap>>, <<variant>>)

add_unwrap_union(m, block, to_unwrap, variant) ==
    add(m, block, "unwrap_union", <<to_unwrap>>, <<variant>>)

add_make_named(m, block, type_name, to_wrap) ==
    add(m, block, "make_named", <<to_wrap>>, type_name)

add_unwrap_named(m, block, type_name, to_unwrap) ==
    add(m, block, "unwrap_named", <<to_unwrap>>, type_name)

\* env.type_names.insert(tag_layout)
type_names_insert(m, tag_layout) ==
    IF m.panicked THEN m ELSE [m EXCEPT !.type_names = @ \cup {tag_layout}]

\* Call { call_type: LowLevel { op, update_mode }, arguments }
CallLowLevelIn(op, update_mode, arguments) ==
    [call_type |-> [ct |-> "LowLevel", op |-> op, update_mode |-> update_mode],
     arguments |-> arguments]

call_spec(m, block, layout, called) ==
    lowlevel_spec(m, block, layout, called.call_type.op, called.call_type.update_mode,
                  called.arguments)

\* Literal::Str and the numeric literals
literal_spec(m, block, literal) ==
    IF literal = "Str" THEN add_const_ref(m, block) ELSE add_make_tuple(m, block, <<>>)

RECURSIVE build_tuple_values(_, _, _, _)
build_tuple_values(m, symbols, i, value_ids) ==
    IF i > Len(symbols) THEN LR(m, value_ids)
    ELSE IF m.panicked \/ m.symbols[symbols[i]] = 0
         THEN LR([m EXCEPT !.panicked = TRUE], <<>>)
    ELSE build_tuple_values(m, symbols, i + 1, Append(value_ids, m.symbols[symbols[i]]))

build_tuple_value(m, block, symbols) ==
    LET Made(value_ids) == add_make_tuple(value_ids.m, block, value_ids.v)
    IN  Made(build_tuple_values(m, symbols, 1, <<>>))

expr_spec(m, block, layout, expr) ==
    LET PlainUnion(value_id) ==
            add_make_union(value_id.m, block, expr.tag_id, value_id.v)
        PlainValue(typed) == PlainUnion(build_tuple_value(typed, block, expr.arguments))
        PlainTag(data_id) ==
            PlainValue(non_recursive_variant_types(
                           data_id.m, UnionLayouts[expr.tag_layout].tags, 1, "Unreachable"))
        UnwrappedTag(data_id) ==
            add_make_named(type_names_insert(data_id.m, expr.tag_layout), block,
                           recursive_tag_union_name_bytes(expr.tag_layout), data_id.v)
        TagNamed(tag_value_id) ==
            add_make_named(type_names_insert(tag_value_id.m, expr.tag_layout), block,
                           recursive_tag_union_name_bytes(expr.tag_layout), tag_value_id.v)
        TagCell(union_id) == TagNamed(with_new_heap_cell(union_id.m, block, union_id.v))
        TagMade(typed, value_id) ==
            TagCell(add_make_union(typed, block, expr.tag_id, value_id))
        RecursiveTag(data_id) ==
            TagMade(recursive_variant_types(data_id.m, expr.tag_layout), data_id.v)
        TagData(data_id) ==
            CASE UnionLayouts[expr.tag_layout].ul = "NonRecursive" -> PlainTag(data_id)
              [] UnionLayouts[expr.tag_layout].ul = "NonNullableUnwrapped" ->
                     UnwrappedTag(data_id)
              [] OTHER -> RecursiveTag(data_id)
        PlainField(tuple_value_id) ==
            add_get_tuple_field(tuple_value_id.m, block, tuple_value_id.v, expr.index)
        PlainAt(tag_value_id) ==
            PlainField(add_unwrap_union(tag_value_id.m, block, tag_value_id.v, expr.tag_id))
        AtField(variant_id) ==
            add_get_tuple_field(variant_id.m, block, variant_id.v, expr.index)
        AtVariant(touched, union_data) ==
            AtField(add_unwrap_union(touched.m, block, union_data, expr.tag_id))
        AtTouch(union_data, heap_cell) ==
            AtVariant(add_touch(union_data.m, block, heap_cell), union_data.v)
        AtData(heap_cell, union_id) ==
            AtTouch(add_get_tuple_field(heap_cell.m, block, union_id, TAG_DATA_INDEX),
                    heap_cell.v)
        AtCell(union_id) ==
            AtData(add_get_tuple_field(union_id.m, block, union_id.v, TAG_CELL_INDEX),
                   union_id.v)
        RecursiveAt(tag_value_id) ==
            AtCell(add_unwrap_named(tag_value_id.m, block,
                                    recursive_tag_union_name_bytes(expr.union_layout),
                                    tag_value_id.v))
        UnwrappedField(variant_id) ==
            add_get_tuple_field(variant_id.m, block, variant_id.v, expr.index)
        UnwrappedNamed(tag_value_id) ==
            UnwrappedField(add_unwrap_named(
                               tag_value_id.m, block,
                               recursive_tag_union_name_bytes(expr.union_layout),
                               tag_value_id.v))
        AtStructure(tag_value_id) ==
            CASE UnionLayouts[expr.union_layout].ul = "NonRecursive" -> PlainAt(tag_value_id)
              [] UnionLayouts[expr.union_layout].ul = "NonNullableUnwrapped" ->
                     UnwrappedNamed(tag_value_id)
              [] OTHER -> RecursiveAt(tag_value_id)
    IN  CASE expr.expr = "Literal" -> literal_spec(m, block, expr.value)
          [] expr.expr = "Call" -> call_spec(m, block, layout, expr.call)
          [] expr.expr = "Tag" -> TagData(build_tuple_value(m, block, expr.arguments))
          [] expr.expr = "UnionAtIndex" -> AtStructure(symbols_index(m, expr.structure))

\* Stmt::Join { id, parameters, body, remainder } of the IR this crate lowers
JoinPoint(id, parameters, body, remainder) ==
    [st |-> "Join", id |-> id, parameters |-> parameters, body |-> body,
     remainder |-> remainder]

\* ModifyRc::Inc, ModifyRc::Dec and ModifyRc::DecRef
ModifyRc(rc, symbol) == [rc |-> rc, symbol |-> symbol]

\* a chain of Let statements: each expression is lowered and its symbol bound
RECURSIVE let_queue(_, _, _, _)
let_queue(m, block, stmt, queue) ==
    LET QueueBound(value_id) ==
            let_queue(symbols_insert(value_id.m, stmt.symbol, value_id.v), block,
                      stmt.cont, Append(queue, stmt.symbol))
    IN  IF stmt.st = "Let" THEN QueueBound(expr_spec(m, block, stmt.layout, stmt.expr))
        ELSE [m |-> m, queue |-> queue, continuation |-> stmt]

\* for symbol in queue { env.symbols.remove(symbol) }
RECURSIVE remove_queue(_, _, _)
remove_queue(m, queue, i) ==
    IF i > Len(queue) THEN m ELSE remove_queue(symbols_remove(m, queue[i]), queue, i + 1)

\* the join parameters are unpacked from the continuation's argument and bound
RECURSIVE unpack_parameters(_, _, _, _, _)
unpack_parameters(m, jp_body_block, jp_argument, parameters, i) ==
    LET UnpackBound(value_id) ==
            unpack_parameters(symbols_insert(value_id.m, parameters[i].symbol, value_id.v),
                              jp_body_block, jp_argument, parameters, i + 1)
    IN  IF i > Len(parameters) THEN m
        ELSE UnpackBound(add_get_tuple_field(m, jp_body_block, jp_argument, i - 1))

RECURSIVE stmt_spec(_, _, _, _)
RECURSIVE switch_cases(_, _, _, _, _)
\* each branch of a Switch is lowered in a block of its own
switch_cases(m, layout, stmts, i, cases) ==
    LET CasePushed(value_id, blk) ==
            switch_cases(value_id.m, layout, stmts, i + 1,
                         Append(cases, BlockExpr(blk, value_id.v)))
        CaseBlock(blk) == CasePushed(stmt_spec(blk.m, blk.v, layout, stmts[i]), blk.v)
    IN  IF i > Len(stmts) THEN LR(m, cases) ELSE CaseBlock(add_block(m))

stmt_spec(m, block, layout, stmt) ==
    LET LetRemoved(result, queue) == LR(remove_queue(result.m, queue, 1), result.v)
        LetCont(bound) ==
            LetRemoved(stmt_spec(bound.m, block, layout, bound.continuation), bound.queue)
        SwitchChoice(cases) == add_choice(cases.m, block, cases.v)
        SwitchBodies ==
            [i \in 1..(Len(stmt.branches) + 1) |->
                IF i <= Len(stmt.branches) THEN stmt.branches[i].stmt
                ELSE stmt.default_branch.stmt]
        RcCont(touched) == stmt_spec(touched.m, block, layout, stmt.cont)
        RcTouch(argument) == RcCont(add_recursive_touch(argument.m, block, argument.v))
        JoinSub(defined, cont_block, cont_value_id) ==
            add_sub_block(Observed(defined, "after", stmt.id), block,
                          BlockExpr(cont_block, cont_value_id))
        JoinDefine(jp_body_value_id, jp_body_block, jpid, cont_block, cont_value_id) ==
            JoinSub(define_continuation(join_points_remove(jp_body_value_id.m, stmt.id), jpid,
                                        BlockExpr(jp_body_block, jp_body_value_id.v)),
                    cont_block, cont_value_id)
        JoinBody(unpacked, jp_body_block, jpid, cont_block, cont_value_id) ==
            JoinDefine(stmt_spec(Observed(unpacked, "body", stmt.id), jp_body_block, layout,
                                 stmt.body),
                       jp_body_block, jpid, cont_block, cont_value_id)
        JoinUnpack(jp_body_block, declared, cont_block, cont_value_id) ==
            JoinBody(unpack_parameters(jp_body_block.m, jp_body_block.v, declared.argument,
                                       stmt.parameters, 1),
                     jp_body_block.v, declared.id, cont_block, cont_value_id)
        JoinRemainder(cont_value_id, cont_block, declared) ==
            JoinUnpack(add_block(cont_value_id.m), declared, cont_block, cont_value_id.v)
        JoinContBlock(cont_block, declared) ==
            JoinRemainder(stmt_spec(Observed(cont_block.m, "remainder", stmt.id),
                                    cont_block.v, layout, stmt.remainder),
                          cont_block.v, declared)
        JoinDeclared(declared) ==
            JoinContBlock(add_block(join_points_insert(declared.m, stmt.id, declared.v.id)),
                          declared.v)
        JumpAdd(jpid, argument) == add_jump(jpid.m, block, jpid.v, argument)
        JumpArgument(argument) ==
            JumpAdd(join_points_index(argument.m, stmt.id), argument.v)
    IN  CASE stmt.st = "Let" -> LetCont(let_queue(m, block, stmt, <<>>))
          [] stmt.st = "Switch" ->
                SwitchChoice(switch_cases(m, layout, SwitchBodies, 1, <<>>))
          [] stmt.st = "Ret" -> symbols_index(m, stmt.symbol)
          [] stmt.st = "Refcounting" -> RcTouch(symbols_index(m, stmt.modify.symbol))
          [] stmt.st = "Join" ->
                JoinDeclared(declare_continuation(Observed(m, "before", stmt.id), block))
          [] stmt.st = "Jump" -> JumpArgument(build_tuple_value(m, block, stmt.arguments))
          [] stmt.st = "RuntimeError" -> add_terminate(m, block)

\* Proc { args, body, ret_layout }
Proc(args, ret_layout, body) == [args |-> args, ret_layout |-> ret_layout, body |-> body]

\* builder.get_argument()
ARG_VALUE_ID == 0

\* the arguments of the procedure are introduced into the environment
RECURSIVE introduce_arguments(_, _, _, _)
introduce_arguments(m, block, args, i) ==
    LET ArgBound(value_id) ==
            introduce_arguments(symbols_insert(value_id.m, args[i].symbol, value_id.v),
                                block, args, i + 1)
    IN  IF i > Len(args) THEN m
        ELSE ArgBound(add_get_tuple_field(m, block, ARG_VALUE_ID, i - 1))

proc_spec(proc) ==
    LET ProcTypes(value_id) ==
            IF value_id.m.panicked THEN value_id
            ELSE
            LR(layout_spec(
                   build_recursive_tuple_type(
                       value_id.m, [i \in 1..Len(proc.args) |-> proc.args[i].layout], 1,
                       "Unreachable"),
                   proc.ret_layout, "Unreachable"),
               value_id.v)
        ProcBody(block, introduced) ==
            ProcTypes(stmt_spec(introduced, block, proc.ret_layout, proc.body))
        Introduce(block) ==
            ProcBody(block.v, introduce_arguments(block.m, block.v, proc.args, 1))
    IN  Introduce(add_block(NewLowering))

(***************************************************************************)
(* Names of procedures in the analysis IR.  A u64 is its eight bytes, low  *)
(* byte first; the hasher of the standard library is a mixing function on  *)
(* such values.                                                            *)
(***************************************************************************)
SIZE == 16

\* the flag is read in builds with debug assertions only (dbg_do!)
debug(debug_assertions, ROC_DEBUG_ALIAS_ANALYSIS) ==
    debug_assertions /\ ROC_DEBUG_ALIAS_ANALYSIS

\* u64::to_ne_bytes: the bytes in the byte order of the target
to_ne_bytes(value, endian) ==
    IF endian = "little" THEN value ELSE [i \in 1..8 |-> value[9 - i]]

RECURSIVE hash_all(_, _, _)
hash_all(hasher, layouts, i) ==
    IF i > Len(layouts) THEN hasher ELSE hash_all(hash(hasher, layouts[i]), layouts, i + 1)

\* format!("{:?}", symbol) as character codes: the identifier id and a prime
\* for each module id
SymbolText(symbol) == <<97 + symbol[1]>> \o [i \in 1..symbol[5] |-> 39]

\* the zip of the sixteen source bytes with the bytes of the name
RECURSIVE copy_bytes(_, _, _)
copy_bytes(name_bytes, sources, i) ==
    IF i > Len(sources) \/ i > SIZE THEN name_bytes
    ELSE copy_bytes([name_bytes EXCEPT ![i - 1] = sources[i]], sources, i + 1)

\* name_bytes[25 + i] = c as u8, for at most 25 characters; an index outside
\* the array panics
RECURSIVE write_debug_name(_, _, _, _)
write_debug_name(name_bytes, chars, i, indices) ==
    IF i >= Len(chars) \/ i >= 25
    THEN [kind |-> "Returned", name_bytes |-> name_bytes, indices |-> indices]
    ELSE IF 25 + i >= SIZE
         THEN [kind |-> "Panicked", name_bytes |-> name_bytes,
               indices |-> indices \cup {25 + i}]
    ELSE write_debug_name([name_bytes EXCEPT ![25 + i] = chars[i + 1] % 256], chars, i + 1,
                          indices \cup {25 + i})

func_name_bytes_help(symbol, argument_layouts, return_layout, debugging, endian) ==
    LET layout_hash == hash(hash_all(NewHasher, argument_layouts, 1), return_layout)
        Copied(sources) == copy_bytes([i \in 0..(SIZE - 1) |-> 0], sources, 1)
        Named(name_bytes) ==
            IF debugging
            THEN write_debug_name(name_bytes, SymbolText(symbol), 0, 0..(SIZE - 1))
            ELSE [kind |-> "Returned", name_bytes |-> name_bytes, indices |-> 0..(SIZE - 1)]
    IN  Named(Copied(to_ne_bytes(symbol, endian) \o to_ne_bytes(layout_hash, endian)))

(***************************************************************************)
(* The inputs of the lowering: procedures over the arguments xs, i and x,  *)
(* whose bodies nest to MaxBodyDepth; the join point of a Join at depth d  *)
(* has the id d, so that ids are unique in a body.                         *)
(***************************************************************************)
MaxBodyDepth == 2

ProcArgs ==
    <<[layout |-> "List", symbol |-> "xs"], [layout |-> "Int", symbol |-> "i"],
      [layout |-> "Int", symbol |-> "x"]>>

UpdateModes == {0, 1, 300}

LowLevelCalls ==
    { CallLowLevelIn("ListReplaceUnsafe", 1, <<"xs", "i", "x">>),
      CallLowLevelIn("ListGetUnsafe", 0, <<"xs", "i">>),
      CallLowLevelIn("ListAppend", 300, <<"xs", "x">>),
      CallLowLevelIn("ListLen", 0, <<"r">>) }

BodyLeaves ==
    { Ret("x"), Ret("y"), Ret("r"), RuntimeError("crash"),
      Jump(GoalId, <<"x">>), Jump(InnerId, <<"i">>) }

Nest(inner, depth) ==
    { Let("r", ExprCall(c), "Int", inner) : c \in LowLevelCalls }
    \cup { Let("x", ExprLiteral("Int"), "Int", inner),
           Refcounting(ModifyRc("Inc", "xs"), inner),
           Switch("i", "Int", <<Branch(0, inner)>>, DefaultBranch(Ret("x")), "Int"),
           Switch("i", "Int", <<Branch(0, Ret("y"))>>, DefaultBranch(inner), "Int") }
    \cup { JoinPoint(depth, <<Param(p, FALSE, "Int")>>, inner, remainder) :
             p \in {"x", "y"}, remainder \in {Jump(depth, <<"i">>), Ret("x")} }
    \cup { JoinPoint(depth, <<Param("y", FALSE, "Int")>>, Ret("y"), inner) }

RECURSIVE Bodies(_)
Bodies(depth) ==
    IF depth = 0 THEN BodyLeaves
    ELSE BodyLeaves \cup UNION { Nest(inner, depth) : inner \in Bodies(depth - 1) }

ArgumentLists == { <<a, b, c>> : a \in {"xs", "y"}, b \in {"i", "xs"}, c \in {"x", "i", "xs"} }

LowLevelOps ==
    {"ListLen", "ListGetUnsafe", "ListReplaceUnsafe", "ListSwap", "ListAppend", "DictInsert"}

\* Symbol as a u64: the identifier id in the low four bytes, the module id above
Symbols == { <<ident, 0, 0, 0, module, 0, 0, 0>> : ident \in 0..2, module \in 0..2 }

LayoutLists == {<<>>, <<"Int">>, <<"List", "Int">>}

\* ModDefBuilder::new(): the functions and the named types of the module
NewModule == [funcs |-> <<>>, type_definitions |-> {}, named |-> {}, panicked |-> FALSE]

\* the entry point wrapper: the types of the arguments it makes up
build_entry_point(layout_arguments) ==
    build_recursive_tuple_type(NewLowering, layout_arguments, 1, "Unreachable")

\* the TypeDef of a union layout, built in a TypeDefBuilder of its own
NamedTypeDef(union_layout) ==
    [type_name |-> recursive_tag_union_name_bytes(union_layout),
     union_layout |-> union_layout,
     type_def |-> recursive_variant_types(NewLowering, union_layout)]

RECURSIVE spec_procs(_, _, _)
spec_procs(module, procs, i) ==
    LET Added(spec) ==
            IF spec.m.panicked THEN [module EXCEPT !.panicked = TRUE]
            ELSE [module EXCEPT !.funcs = Append(@, spec.m),
                                !.type_definitions = @ \cup spec.m.type_names]
    IN  IF i > Len(procs) \/ module.panicked THEN module
        ELSE spec_procs(Added(proc_spec(procs[i])), procs, i + 1)

\* the main module spec_program builds from procedures that are not exposed
\* to the host
spec_program(entry_point, procs) ==
    LET Defined(module) ==
            IF module.panicked THEN module
            ELSE [module EXCEPT
                    !.named = { NamedTypeDef(union_layout) :
                                  union_layout \in module.type_definitions },
                    !.panicked = \E union_layout \in module.type_definitions :
                                    NamedTypeDef(union_layout).type_def.panicked]
        Entered(module) ==
            IF module.panicked THEN module
            ELSE Defined([module EXCEPT !.funcs = Append(@, build_entry_point(entry_point))])
    IN  Entered(spec_procs(NewModule, procs, 1))

MaxProcs == 2

ProgramLayouts == {"ConsList", "Tree", "Peano", "Pair"}

\* procedures that take a union, and return it, read a field of it or make
\* a value of it
ProgramProcs ==
    UNION { { Proc(<<[layout |-> l, symbol |-> "xs"], [layout |-> "Int", symbol |-> "i"]>>,
                   l, Ret("xs")),
              Proc(<<[layout |-> l, symbol |-> "xs"], [layout |-> "Int", symbol |-> "i"]>>,
                   "Int", Let("r", ExprUnionAtIndex(0, 0, "xs", l), "Int", Ret("r"))),
              Proc(<<[layout |-> l, symbol |-> "xs"], [layout |-> "Int", symbol |-> "i"]>>,
                   l, Let("r", ExprTag(l, 0, <<"i", "xs">>), l, Ret("r"))),
              Proc(<<[layout |-> "Int", symbol |-> "i"]>>,
                   l, Let("r", ExprTag(l, 0, <<"i", "i">>), l, Ret("r"))) } :
            l \in ProgramLayouts }

Programs == UNION { [1..n -> ProgramProcs] : n \in 1..MaxProcs }

EntryPoints == {<<>>, <<"Int">>, <<"ConsList">>}

PassIdle == pass = Idle

InitLowering ==
    /\ UnifierIdle
    /\ PassIdle
    /\ parser = Idle
    /\ \/ \E body \in Bodies(MaxBodyDepth) :
            lowering = [phase |-> "input", task |-> "proc",
                        proc |-> Proc(ProcArgs, "Int", body)]
       \/ \E op \in LowLevelOps, update_mode \in UpdateModes, arguments \in ArgumentLists :
            lowering = [phase |-> "input", task |-> "lowlevel",
                        called |-> CallLowLevelIn(op, update_mode, arguments)]
       \/ \E procs \in Programs, entry_point \in EntryPoints :
            lowering = [phase |-> "input", task |-> "program", procs |-> procs,
                        entry_point |-> entry_point]
       \/ \E symbol \in Symbols, argument_layouts \in LayoutLists,
             return_layout \in {"Int", "Str"} :
            lowering = [phase |-> "input", task |-> "name", symbol |-> symbol,
                        argument_layouts |-> argument_layouts,
                        return_layout |-> return_layout]

\* a procedure is lowered
ProcSpec ==
    /\ lowering.phase = "input"
    /\ lowering.task = "proc"
    /\ lowering' = [phase |-> "done", task |-> "proc", proc |-> lowering.proc,
                    result |-> proc_spec(lowering.proc)]
    /\ UNCHANGED <<unifier, pass, parser>>

\* the block and environment a low-level call of the procedure is lowered in
InProc(block) == LR(introduce_arguments(block.m, block.v, ProcArgs, 1), block.v)

CallSite == InProc(add_block(NewLowering))

\* a low-level call on the arguments of the procedure is lowered
LowlevelSpec ==
    /\ lowering.phase = "input"
    /\ lowering.task = "lowlevel"
    /\ lowering' = [phase |-> "done", task |-> "lowlevel", called |-> lowering.called,
                    result |-> call_spec(CallSite.m, CallSite.v, "Pair", lowering.called)]
    /\ UNCHANGED <<unifier, pass, parser>>

\* a program is lowered
SpecProgram ==
    /\ lowering.phase = "input"
    /\ lowering.task = "program"
    /\ lowering' = [phase |-> "done", task |-> "program", procs |-> lowering.procs,
                    entry_point |-> lowering.entry_point,
                    result |-> spec_program(lowering.entry_point, lowering.procs)]
    /\ UNCHANGED <<unifier, pass, parser>>

\* the name of a procedure is computed
FuncNameBytes(debug_assertions, ROC_DEBUG_ALIAS_ANALYSIS, endian) ==
    /\ lowering.phase = "input"
    /\ lowering.task = "name"
    /\ lowering' = [phase |-> "done", task |-> "name", symbol |-> lowering.symbol,
                    argument_layouts |-> lowering.argument_layouts,
                    return_layout |-> lowering.return_layout,
                    debug_assertions |-> debug_assertions,
                    ROC_DEBUG_ALIAS_ANALYSIS |-> ROC_DEBUG_ALIAS_ANALYSIS,
                    endian |-> endian,
                    result |-> func_name_bytes_help(
                                  lowering.symbol, lowering.argument_layouts,
                                  lowering.return_layout,
                                  debug(debug_assertions, ROC_DEBUG_ALIAS_ANALYSIS), endian)]
    /\ UNCHANGED <<unifier, pass, parser>>

NextLowering ==
    \/ ProcSpec
    \/ LowlevelSpec
    \/ SpecProgram
    \/ \E debug_assertions \in BOOLEAN, ROC_DEBUG_ALIAS_ANALYSIS \in BOOLEAN,
          endian \in {"little", "big"} :
            FuncNameBytes(debug_assertions, ROC_DEBUG_ALIAS_ANALYSIS, endian)

SpecLowering == InitLowering /\ [][NextLowering]_vars

(***************************************************************************)
(* The claims about the lowering.  lowering.result.m.ops are the           *)
(* operations the builder was given, in order; those of CallSite.m were    *)
(* emitted before the call.                                                *)
(***************************************************************************)
LowlevelDone == lowering.phase = "done" /\ lowering.task = "lowlevel"

ReplaceLowered ==
    /\ LowlevelDone
    /\ lowering.called.call_type.op = "ListReplaceUnsafe"
    /\ ~lowering.result.m.panicked

\* the positions of the operations the call emitted
EmittedAt == (Len(CallSite.m.ops) + 1)..Len(lowering.result.m.ops)

Emits(k, op, args, extra) ==
    /\ lowering.result.m.ops[k].op = op
    /\ lowering.result.m.ops[k].args = args
    /\ lowering.result.m.ops[k].extra = extra
    /\ lowering.result.m.ops[k].block = CallSite.v

ValueAt(k) == lowering.result.m.ops[k].value

ListOfCall == CallSite.m.symbols[lowering.called.arguments[1]]

InsertedOfCall == CallSite.m.symbols[lowering.called.arguments[3]]

\* C18: lowering ListReplaceUnsafe on (list, index, x) emits in the call's
\* block a touch of the list's heap cell, then an update of that same cell
\* under the call's UpdateModeVar, then a bag_insert of x into the list's bag,
\* and returns a tuple of two fields (new_list, old_value), old_value got by
\* bag_get from the bag and new_list made with a heap cell allocated anew.
C18_ListReplaceUnsafe ==
    ReplaceLowered =>
        \E c, b, t, u, n \in EmittedAt :
            /\ Emits(c, "get_tuple_field", <<ListOfCall>>, <<LIST_CELL_INDEX>>)
            /\ Emits(b, "get_tuple_field", <<ListOfCall>>, <<LIST_BAG_INDEX>>)
            /\ t < u /\ u < n
            /\ Emits(t, "touch", <<ValueAt(c)>>, <<>>)
            /\ Emits(u, "update", <<ValueAt(c)>>,
                     to_bytes(lowering.called.call_type.update_mode))
            /\ Emits(n, "bag_insert", <<ValueAt(b), InsertedOfCall>>, <<>>)
            /\ \E g, h, l, r \in EmittedAt :
                /\ Emits(g, "bag_get", <<ValueAt(b)>>, <<>>)
                /\ Emits(h, "new_heap_cell", <<>>, <<>>)
                /\ h < l
                /\ lowering.result.m.ops[l].op = "make_tuple"
                /\ lowering.result.m.ops[l].args[1] = ValueAt(h)
                /\ Emits(r, "make_tuple", <<ValueAt(l), ValueAt(g)>>, <<>>)
                /\ lowering.result.v = ValueAt(r)

C18_Witness ==
    /\ ReplaceLowered
    /\ lowering.called.arguments = <<"xs", "i", "x">>
    /\ lowering.called.call_type.update_mode = 300
    /\ \E u \in EmittedAt : lowering.result.m.ops[u].extra = <<44, 1, 0, 0>>

ProcDone == lowering.phase = "done" /\ lowering.task = "proc"

JoinTrace == lowering.result.m.trace

\* the statements of the procedure body
RECURSIVE BodyParts(_)
BodyParts(stmt) ==
    {stmt} \cup
    CASE stmt.st \in {"Let", "Refcounting"} -> BodyParts(stmt.cont)
      [] stmt.st = "Join" -> BodyParts(stmt.body) \cup BodyParts(stmt.remainder)
      [] stmt.st = "Switch" ->
            BodyParts(stmt.default_branch.stmt)
            \cup UNION {BodyParts(stmt.branches[i].stmt) : i \in DOMAIN stmt.branches}
      [] OTHER -> {}

JoinOf(id) == CHOOSE stmt \in BodyParts(lowering.proc.body) : stmt.st = "Join" /\ stmt.id = id

\* the position in the trace at which the Join of the id was at the point
At(point, id) == {k \in DOMAIN JoinTrace : JoinTrace[k].at = point /\ JoinTrace[k].id = id}

\* the Joins whose lowering came to its end
JoinsLowered == {JoinTrace[k].id : k \in {j \in DOMAIN JoinTrace : JoinTrace[j].at = "after"}}

\* C19: when a Join has been lowered, its remainder was lowered first, under
\* the bindings in force before the Join, then its body with the join
\* parameters bound; after the Join the symbol environment is the one before
\* it, and the join point id is in the environment only while remainder and
\* body are lowered.
C19_JoinScopesParameters ==
    ProcDone =>
        \A id \in JoinsLowered :
            \E b \in At("before", id), r \in At("remainder", id), y \in At("body", id),
               a \in At("after", id) :
                /\ b < r /\ r < y /\ y < a
                /\ JoinTrace[r].symbols = JoinTrace[b].symbols
                /\ \A p \in DOMAIN JoinOf(id).parameters :
                       JoinTrace[y].symbols[JoinOf(id).parameters[p].symbol] # 0
                /\ JoinTrace[a].symbols = JoinTrace[b].symbols
                /\ JoinTrace[b].join_points[id] = 0
                /\ JoinTrace[r].join_points[id] # 0
                /\ JoinTrace[y].join_points[id] # 0
                /\ JoinTrace[a].join_points[id] = 0

NameDone == lowering.phase = "done" /\ lowering.task = "name"

\* the name computed for the same symbol and layouts without the flag
NameWithoutFlag ==
    func_name_bytes_help(lowering.symbol, lowering.argument_layouts, lowering.return_layout,
                         debug(lowering.debug_assertions, FALSE), lowering.endian)

LayoutHashOfName ==
    hash(hash_all(NewHasher, lowering.argument_layouts, 1), lowering.return_layout)

\* C20: with ROC_DEBUG_ALIAS_ANALYSIS set, func_name_bytes_help completes
\* without failure and returns the same 16-byte name as without the flag,
\* the 8 bytes of the symbol followed by the 8 bytes of the layout hash, and
\* every byte index it writes lies inside the 16-byte array.
C20_DebugFlagKeepsName ==
    NameDone /\ lowering.ROC_DEBUG_ALIAS_ANALYSIS =>
        /\ lowering.result.kind = "Returned"
        /\ lowering.result.name_bytes = NameWithoutFlag.name_bytes
        /\ \A i \in 0..7 :
            /\ lowering.result.name_bytes[i] =
                   to_ne_bytes(lowering.symbol, lowering.endian)[i + 1]
            /\ lowering.result.name_bytes[8 + i] =
                   to_ne_bytes(LayoutHashOfName, lowering.endian)[i + 1]
        /\ lowering.result.indices \subseteq 0..(SIZE - 1)

\* the positions in the log of the calls of unify_pool
PoolCalls == {i \in DOMAIN log : log[i].ev = "unify_pool"}

\* the first call of unify_pool under the call the solver made
FirstChildCall == CHOOSE j \in PoolCalls \ {1} : \A i \in PoolCalls \ {1} : j <= i

SameShape(l, r) ==
    \/ /\ l.tag = "Structure" /\ r.tag = "Structure"
       /\ l.flat.ft = r.flat.ft
       /\ l.flat.ft \in {"Apply", "Func", "Record", "TagUnion"}
       /\ l.flat.ft = "Apply" => l.flat.symbol = r.flat.symbol
    \/ /\ l.tag = "Alias" /\ r.tag = "Alias"
       /\ l.symbol = r.symbol /\ Len(l.args) = Len(r.args)

\* a call on two types of one shape that went on to unify their children
RecursesIntoChildren ==
    /\ Called /\ ~Equivalent(before, call.var1, call.var2)
    /\ SameShape(Left, Right)
    /\ PoolCalls \ {1} # {}

\* C21: in a unification that recurses into child variables, the union of
\* the two top-level variables happens before the first recursive call of
\* unify_pool on a child.
C21_MergeBeforeRecurse ==
    RecursesIntoChildren =>
        \E k \in 1..FirstChildCall :
            /\ log[k].ev = "union"
            /\ {log[k].a, log[k].b} = {call.var1, call.var2}

\* the field and the parts of the two function types
FuncsMet ==
    /\ Called /\ ~Equivalent(before, call.var1, call.var2)
    /\ Left.tag = "Structure" /\ Left.flat.ft = "Func"
    /\ Right.tag = "Structure" /\ Right.flat.ft = "Func"
    /\ Len(Left.flat.args) = Len(Right.flat.args)

CalledAt(a, b) == {i \in PoolCalls : log[i].a = a /\ log[i].b = b}

\* C22: when two function types of equal arity are unified, the arguments
\* are unified pairwise first, then the closure variables, and only then the
\* return variables.
C22_FuncOrder ==
    FuncsMet =>
        \E c \in CalledAt(Left.flat.closure, Right.flat.closure),
           r \in CalledAt(Left.flat.ret, Right.flat.ret) :
            /\ \A i \in DOMAIN Left.flat.args :
                 \E a \in CalledAt(Left.flat.args[i], Right.flat.args[i]) : a < c
            /\ c < r

\* two aliases, neither of them opaque, in two classes
StructuralAliasesMet ==
    /\ Called /\ ~Equivalent(before, call.var1, call.var2)
    /\ Left.tag = "Alias" /\ Left.kind # "Opaque"
    /\ Right.tag = "Alias" /\ Right.kind # "Opaque"

SameAlias == Left.symbol = Right.symbol /\ Len(Left.args) = Len(Right.args)

RealVars == unify_pool(Machine(before), Left.real_var, Right.real_var, call.mode)

\* C23: of two aliases that are not opaque, those of one symbol and one
\* argument count have their arguments unified pairwise and, on success, the
\* class merged with the content of the right alias; in every other case the
\* outcome is that of unifying the left real_var with the right real_var.
C23_AliasWithAlias ==
    StructuralAliasesMet =>
        IF SameAlias
        THEN Success =>
                /\ Content(subs, call.var1) = Right
                /\ Equivalent(subs, call.var1, call.var2)
                /\ \A i \in DOMAIN Left.args :
                       Equivalent(subs, Left.args[i], Right.args[i])
        ELSE /\ outcome = RealVars.o
             /\ Success <=> Ok(RealVars)
             /\ Success => Equivalent(subs, Left.real_var, Right.real_var)

\* a successful call that made one class of two
Merged2 ==
    /\ Called /\ Success
    /\ ~Equivalent(before, call.var1, call.var2)
    /\ Equivalent(subs, call.var1, call.var2)

\* C24: after a successful unify(v1, v2, mode) the descriptor of the merged
\* class has the minimum of the ranks v1 and v2 had before the call and the
\* neutral mark, on every success path.
C24_MergedRank ==
    Merged2 =>
        /\ Get(subs, call.var1).rank =
               Min(Get(before, call.var1).rank, Get(before, call.var2).rank)
        /\ Get(subs, call.var1).mark = MarkNONE

\* two Apply types of one symbol, in two classes
AppliesMet ==
    /\ Called /\ ~Equivalent(before, call.var1, call.var2)
    /\ Left.tag = "Structure" /\ Left.flat.ft = "Apply"
    /\ Right.tag = "Structure" /\ Right.flat.ft = "Apply"
    /\ Left.flat.symbol = Right.flat.symbol

\* C26: two Apply types of one symbol unify successfully only when their
\* argument lists have the same length, and then every pair of arguments
\* was unified.
C26_ApplyArity ==
    AppliesMet /\ Success =>
        /\ Len(Left.flat.args) = Len(Right.flat.args)
        /\ \A i \in DOMAIN Left.flat.args :
               Equivalent(subs, Left.flat.args[i], Right.flat.args[i])

\* an able rigid variable on the left, an unbound flex variable on the right
RigidAbleMeetsFlex ==
    /\ Called /\ ~Equivalent(before, call.var1, call.var2)
    /\ Left.tag = "RigidAbleVar"
    /\ Right.tag = "FlexVar"

\* C27: unifying RigidAbleVar(name, ability) on the left with a FlexVar on
\* the right leaves the merged class with the content
\* RigidAbleVar(name, ability), as the call with the FlexVar on the left does.
C27_AbilityBoundKept ==
    RigidAbleMeetsFlex =>
        /\ Success
        /\ Content(subs, call.var1) = Left
        /\ Content(subs, call.var1) = Content(Swapped.s, call.var1)

\* an able flex variable has met a type
AbleMeetsType ==
    /\ Called /\ ~Equivalent(before, call.var1, call.var2)
    /\ \/ Left.tag = "FlexAbleVar" /\ Right.tag \in {"Structure", "Alias", "RangedNumber"}
       \/ Right.tag = "FlexAbleVar" /\ Left.tag \in {"Structure", "Alias", "RangedNumber"}

AbilityMet == IF Left.tag = "FlexAbleVar" THEN Left.ability ELSE Right.ability

\* C28: whenever FlexAbleVar(_, ability) is unified with a type, in either
\* argument order, the call is a mismatch or returns an obligation
\* MustImplement(type, ability); for an opaque type without arguments the
\* obligation is the same in both orders.
C28_ObligationEitherOrder ==
    AbleMeetsType /\ Success =>
        /\ \E i \in DOMAIN outcome.must_implement_ability :
               outcome.must_implement_ability[i].ability = AbilityMet
        /\ outcome.must_implement_ability = Swapped.o.must_implement_ability

\* an update in place of a list or of a dictionary was lowered
InPlaceLowered ==
    /\ LowlevelDone
    /\ lowering.called.call_type.op \in {"ListReplaceUnsafe", "DictInsert"}
    /\ ~lowering.result.m.panicked

\* the collection the call returns: the result itself for DictInsert, the
\* first field of the result for ListReplaceUnsafe
ReturnedCollection(l) ==
    /\ lowering.result.m.ops[l].op = "make_tuple"
    /\ Len(lowering.result.m.ops[l].args) = 2
    /\ IF lowering.called.call_type.op = "DictInsert"
       THEN lowering.result.v = ValueAt(l)
       ELSE \E r \in EmittedAt :
               /\ lowering.result.m.ops[r].op = "make_tuple"
               /\ Len(lowering.result.m.ops[r].args) = 2
               /\ lowering.result.m.ops[r].args[1] = ValueAt(l)
               /\ lowering.result.v = ValueAt(r)

\* C29: in the lowering of ListReplaceUnsafe and of DictInsert the bag
\* stored in the returned collection is the value bag_insert produced, not
\* the bag read from the input collection before the insertion.
C29_InsertedBagReturned ==
    InPlaceLowered =>
        \E n, l \in EmittedAt :
            /\ lowering.result.m.ops[n].op = "bag_insert"
            /\ ReturnedCollection(l)
            /\ lowering.result.m.ops[l].args[LIST_BAG_INDEX + 1] = ValueAt(n)

ProgramDone ==
    /\ lowering.phase = "done" /\ lowering.task = "program"
    /\ ~lowering.result.panicked

\* the type names a function definition refers to: in its types, and in the
\* make_named and unwrap_named operations of its body
NamesOf(func) ==
    func.named_types \cup
    { func.ops[k].extra : k \in { j \in DOMAIN func.ops :
                                     func.ops[j].op \in {"make_named", "unwrap_named"} } }

ReferencedNames ==
    UNION { NamesOf(lowering.result.funcs[f]) : f \in DOMAIN lowering.result.funcs }

TypeDefsOf(type_name) == { d \in lowering.result.named : d.type_name = type_name }

\* C30: every type name that a function definition of the lowered program
\* refers to (through layout_spec, add_unwrap_named or add_make_named) has
\* exactly one TypeDef registered in the module by spec_program.
C30_NamedTypesDefined ==
    ProgramDone => \A type_name \in ReferencedNames : Cardinality(TypeDefsOf(type_name)) = 1

(***************************************************************************)
(* The position of the parser in a source file (parse/parser.rs).  input   *)
(* is the number of bytes of the source that remain; a State that a call   *)
(* could not make, because the call panicked, is Panicked.  The usize      *)
(* additions are checked in the code; the quantities here stay far below   *)
(* the width of usize, and the lines far below that of u32.                *)
(***************************************************************************)
U16_MAX == 65535

\* State::new
new(input) ==
    [input |-> input, line |-> 0, column |-> 0, indent_col |-> 1, is_indenting |-> TRUE]

newline(self) ==
    [input |-> self.input, line |-> self.line + 1, column |-> 0, indent_col |-> 1,
     is_indenting |-> TRUE]

advance_without_indenting(self, quantity) ==
    IF self.column + quantity > U16_MAX THEN Panicked
    ELSE IF quantity > self.input THEN Panicked
    ELSE [input |-> self.input - quantity, line |-> self.line,
          column |-> self.column + quantity, indent_col |-> self.indent_col,
          is_indenting |-> FALSE]

\* debug_assertions and overflow_checks are the options of the build: a sum
\* that does not fit in a u16 panics under overflow_checks and wraps without
advance_spaces(self, spaces, debug_assertions, overflow_checks) ==
    LET spaces_u16 == spaces % (U16_MAX + 1)
        indent_col ==
            IF self.is_indenting THEN (self.indent_col + spaces_u16) % (U16_MAX + 1)
            ELSE self.indent_col
    IN  IF debug_assertions /\ spaces > U16_MAX THEN Panicked
        ELSE IF self.column + spaces > U16_MAX THEN Panicked
        ELSE IF self.is_indenting /\ debug_assertions
                /\ ~(U16_MAX - self.indent_col >= spaces_u16) THEN Panicked
        ELSE IF self.is_indenting /\ overflow_checks
                /\ self.indent_col + spaces_u16 > U16_MAX THEN Panicked
        ELSE IF spaces > self.input THEN Panicked
        ELSE [input |-> self.input - spaces, line |-> self.line,
              column |-> self.column + spaces, indent_col |-> indent_col,
              is_indenting |-> self.is_indenting]

MaxParserCalls == 3

\* the lengths of the sources, and the lengths the parsers advance by
Inputs == {0, 3, 65535, 65536, 70000}

Quantities == {0, 1, 2, 65533, 65534, 65535, 65536}

InitParser ==
    /\ UnifierIdle
    /\ PassIdle
    /\ lowering = Idle
    /\ \E input \in Inputs :
         parser = [phase |-> "parsing", state |-> new(input), calls |-> 0,
                   last |-> [op |-> "new", arg |-> input, self |-> new(input)]]

\* the state a call leaves, with the call that made it
Called2(op, arg, state) ==
    /\ parser.phase = "parsing"
    /\ parser.calls < MaxParserCalls
    /\ parser' = [phase |-> IF state = Panicked THEN "panicked" ELSE "parsing",
                  state |-> IF state = Panicked THEN parser.state ELSE state,
                  calls |-> parser.calls + 1,
                  last |-> [op |-> op, arg |-> arg, self |-> parser.state]]
    /\ UNCHANGED <<unifier, pass, lowering>>

Newline == Called2("newline", 0, newline(parser.state))

AdvanceWithoutIndenting(quantity) ==
    Called2("advance_without_indenting", quantity,
            advance_without_indenting(parser.state, quantity))

AdvanceSpaces(spaces, debug_assertions, overflow_checks) ==
    Called2("advance_spaces", spaces,
            advance_spaces(parser.state, spaces, debug_assertions, overflow_checks))

NextParser ==
    \/ Newline
    \/ \E quantity \in Quantities : AdvanceWithoutIndenting(quantity)
    \/ \E spaces \in Quantities, debug_assertions \in BOOLEAN, overflow_checks \in BOOLEAN :
          AdvanceSpaces(spaces, debug_assertions, overflow_checks)

SpecParser == InitParser /\ [][NextParser]_vars

Parsing == parser.phase = "parsing"

\* advance_spaces was called on an indenting State and its column
\* computation did not panic
SpacesAdvanced ==
    /\ parser.phase \in {"parsing", "panicked"}
    /\ parser.last.op = "advance_spaces"
    /\ parser.last.self.is_indenting
    /\ parser.last.self.column + parser.last.arg <= U16_MAX

\* C25: in every State reachable from State::new by newline,
\* advance_without_indenting and advance_spaces, indent_col <= column, so that
\* whenever the column computation of advance_spaces does not panic, the sum
\* indent_col + spaces does not exceed u16::MAX.
C25_IndentWithinColumn ==
    /\ Parsing => parser.state.indent_col <= parser.state.column
    /\ SpacesAdvanced => parser.last.self.indent_col + parser.last.arg <= U16_MAX
=============================================================================
